---- MODULE Spec2Model ----
(***************************************************************************)
(* Verification model of bala2404jbs/code_modernisation.                   *)
(*                                                                         *)
(*   - the Recovery Parser of backend/converters/code_converter.py         *)
(*     (_parse_single_file_conversion, _fix_common_json_issues,            *)
(*      _extract_content_manually),                                        *)
(*   - the Parse Orchestrator and extractors of                            *)
(*     backend/parsers/ast_parser.py (parse_project, parse_file,           *)
(*     _parse_python_file, _parse_java_file, _parse_generic_file).         *)
(*                                                                         *)
(* Text is a sequence of symbols.  A symbol is one character, or a run of  *)
(* letters that the program never splits (an "atom": "content" stands for  *)
(* the seven letters c-o-n-t-e-n-t).  Letters that are significant after a *)
(* backslash (n, t, f) are always symbols of their own, so the word notes  *)
(* is the two symbols "n","otes" and null is "n","ull".                    *)
(***************************************************************************)
EXTENDS Integers, Sequences, FiniteSets, TLC

\* ------------------------------------------------------------------------
\* Symbols
\* ------------------------------------------------------------------------
LB    == "{"
RB    == "}"
LS    == "["
RS    == "]"
DQ    == "\""
COLON == ":"
COMMA == ","
BS    == "\\"
BT    == "BACKTICK"
NL    == "NL"
SP    == " "
TAB   == "TAB"
FF    == "FF"
EQ    == "="

\* characters matched by \w (re) -- letters, digits, underscore
WordSyms == {"n", "t", "f", "x", "1", "content", "otes", "ilename",
             "dependencies", "ull", "pytho", "jav", "a", "ok", "py",
             "cobo", "l"}
\* whitespace of the JSON grammar (json.decoder.WHITESPACE)
JsonWs == {SP, TAB, NL}
\* whitespace of str.strip() and of \s (re): includes the form feed
StrWs == {SP, TAB, NL, FF}

\* ------------------------------------------------------------------------
\* json.loads (Python standard library, strict mode), as used at
\* code_converter.py:789 and :798
\* ------------------------------------------------------------------------
JStr(s)  == [t |-> "str",  s |-> s,    kv |-> <<>>]
JNum(s)  == [t |-> "num",  s |-> s,    kv |-> <<>>]
JNull    == [t |-> "null", s |-> <<>>, kv |-> <<>>]
JObj(kv) == [t |-> "obj",  s |-> <<>>, kv |-> kv]
JArr(el) == [t |-> "arr",  s |-> <<>>, kv |-> el]

JFail     == [ok |-> FALSE, v |-> JNull, i |-> 0]
JOk(v, i) == [ok |-> TRUE,  v |-> v,     i |-> i]

At(s, i) == IF i >= 1 /\ i <= Len(s) THEN s[i] ELSE "EOF"

RECURSIVE SkipWs(_, _)
SkipWs(s, i) == IF At(s, i) \in JsonWs THEN SkipWs(s, i + 1) ELSE i

\* py_scanstring: i is the position after the opening quote
RECURSIVE ScanString(_, _, _)
ScanString(s, i, acc) ==
  LET c == At(s, i) IN
  IF c = "EOF" THEN JFail
  ELSE IF c = DQ THEN JOk(JStr(acc), i + 1)
  ELSE IF c = BS THEN
    LET e == At(s, i + 1) IN
    IF e = DQ THEN ScanString(s, i + 2, Append(acc, DQ))
    ELSE IF e = BS THEN ScanString(s, i + 2, Append(acc, BS))
    ELSE IF e = "n" THEN ScanString(s, i + 2, Append(acc, NL))
    ELSE IF e = "t" THEN ScanString(s, i + 2, Append(acc, TAB))
    ELSE IF e = "f" THEN ScanString(s, i + 2, Append(acc, FF))
    ELSE JFail
  ELSE IF c \in {NL, TAB, FF} THEN JFail
  ELSE ScanString(s, i + 1, Append(acc, c))

RECURSIVE ScanNumber(_, _)
ScanNumber(s, i) == IF At(s, i) = "1" THEN ScanNumber(s, i + 1) ELSE i

RECURSIVE ParseValue(_, _), ParseMembers(_, _, _), ParseElements(_, _, _)
\* JSONObject: j is the position of the next member's opening quote
ParseMembers(s, j, acc) ==
  IF At(s, j) # DQ THEN JFail
  ELSE
    LET key == ScanString(s, j + 1, <<>>) IN
    IF ~key.ok THEN JFail
    ELSE
      LET k == SkipWs(s, key.i) IN
      IF At(s, k) # COLON THEN JFail
      ELSE
        LET val == ParseValue(s, SkipWs(s, k + 1)) IN
        IF ~val.ok THEN JFail
        ELSE
          LET m    == SkipWs(s, val.i)
              acc2 == Append(acc, [k |-> key.v.s, v |-> val.v])
          IN IF At(s, m) = RB THEN JOk(JObj(acc2), m + 1)
             ELSE IF At(s, m) = COMMA
                  THEN ParseMembers(s, SkipWs(s, m + 1), acc2)
                  ELSE JFail

\* JSONArray: j is the position of the next element
ParseElements(s, j, acc) ==
  LET val == ParseValue(s, j) IN
  IF ~val.ok THEN JFail
  ELSE
    LET m    == SkipWs(s, val.i)
        acc2 == Append(acc, val.v)
    IN IF At(s, m) = RS THEN JOk(JArr(acc2), m + 1)
       ELSE IF At(s, m) = COMMA
            THEN ParseElements(s, SkipWs(s, m + 1), acc2)
            ELSE JFail

\* scanner.py_make_scanner._scan_once
ParseValue(s, i) ==
  LET c == At(s, i) IN
  IF c = DQ THEN ScanString(s, i + 1, <<>>)
  ELSE IF c = LB THEN
    LET j == SkipWs(s, i + 1) IN
    IF At(s, j) = RB THEN JOk(JObj(<<>>), j + 1)
    ELSE ParseMembers(s, j, <<>>)
  ELSE IF c = LS THEN
    LET j == SkipWs(s, i + 1) IN
    IF At(s, j) = RS THEN JOk(JArr(<<>>), j + 1)
    ELSE ParseElements(s, j, <<>>)
  ELSE IF c = "n" /\ At(s, i + 1) = "ull" THEN JOk(JNull, i + 2)
  ELSE IF c = "1" THEN
    LET j == ScanNumber(s, i) IN JOk(JNum(SubSeq(s, i, j - 1)), j)
  ELSE JFail

\* json.loads: the whole text must be one value between optional whitespace
JsonLoads(s) ==
  LET r == ParseValue(s, SkipWs(s, 1)) IN
  IF r.ok /\ SkipWs(s, r.i) = Len(s) + 1 THEN r ELSE JFail

\* dict.get(key, default) on a parsed object: the last member with that key
\* wins, as in a Python dict built by the decoder
RECURSIVE DictGet(_, _, _)
DictGet(kv, key, default) ==
  IF kv = <<>> THEN default
  ELSE IF kv[Len(kv)].k = key THEN kv[Len(kv)].v
  ELSE DictGet(SubSeq(kv, 1, Len(kv) - 1), key, default)

\* ------------------------------------------------------------------------
\* Helpers for the regular expressions of code_converter.py
\* ------------------------------------------------------------------------
Min(S) == CHOOSE x \in S : \A y \in S : x <= y
Max(S) == CHOOSE x \in S : \A y \in S : x >= y

\* \s* : position of the first symbol at or after i that is not whitespace
RECURSIVE SkipStrWs(_, _)
SkipStrWs(s, i) == IF At(s, i) \in StrWs THEN SkipStrWs(s, i + 1) ELSE i

\* position of the first symbol c at or after i, 0 when there is none
RECURSIVE NextSym(_, _, _)
NextSym(s, i, c) ==
  IF i > Len(s) THEN 0
  ELSE IF s[i] = c THEN i
  ELSE NextSym(s, i + 1, c)

NoMatch == [found |-> FALSE, from |-> 0, to |-> 0]

\* \s*"([^"]*(?:\\.[^"]*)*)"  matched at position q.  [^"]* is greedy and
\* nothing follows the closing quote in the pattern, so the group is the run
\* of symbols up to the first quote after the opening one (the escape
\* alternative is only reached by backtracking, which then finds no quote).
QuotedCapture(s, q) ==
  LET w == SkipStrWs(s, q)
      e == NextSym(s, w + 1, DQ)
  IN IF At(s, w) = DQ /\ e # 0
     THEN [found |-> TRUE, from |-> w + 1, to |-> e - 1]
     ELSE NoMatch

\* re.search(r'"content":\s*"([^"]*(?:\\.[^"]*)*)"', s): leftmost match
SearchQuotedContent(s) ==
  LET P == {p \in 1..Len(s) :
              /\ At(s, p) = DQ /\ At(s, p + 1) = "content"
              /\ At(s, p + 2) = DQ /\ At(s, p + 3) = COLON
              /\ QuotedCapture(s, p + 4).found}
  IN IF P = {} THEN NoMatch ELSE QuotedCapture(s, Min(P) + 4)

\* re.search(r'content:\s*"([^"]*(?:\\.[^"]*)*)"', s)
SearchBareContent(s) ==
  LET P == {p \in 1..Len(s) :
              /\ At(s, p) = "content" /\ At(s, p + 1) = COLON
              /\ QuotedCapture(s, p + 2).found}
  IN IF P = {} THEN NoMatch ELSE QuotedCapture(s, Min(P) + 2)

\* \s*`([^`]*)` matched at position q
BacktickCapture(s, q) ==
  LET w == SkipStrWs(s, q)
      e == NextSym(s, w + 1, BT)
  IN IF At(s, w) = BT /\ e # 0
     THEN [found |-> TRUE, from |-> w + 1, to |-> e - 1]
     ELSE NoMatch

\* re.search(r'content:\s*`([^`]*)`', s)
SearchBacktickContent(s) ==
  LET P == {p \in 1..Len(s) :
              /\ At(s, p) = "content" /\ At(s, p + 1) = COLON
              /\ BacktickCapture(s, p + 2).found}
  IN IF P = {} THEN NoMatch ELSE BacktickCapture(s, Min(P) + 2)

\* \s*"""([^"]*)""" matched at position q
TripleCapture(s, q) ==
  LET w == SkipStrWs(s, q)
      e == NextSym(s, w + 3, DQ)
  IN IF /\ At(s, w) = DQ /\ At(s, w + 1) = DQ /\ At(s, w + 2) = DQ
        /\ e # 0 /\ At(s, e + 1) = DQ /\ At(s, e + 2) = DQ
     THEN [found |-> TRUE, from |-> w + 3, to |-> e - 1]
     ELSE NoMatch

\* re.search(r'content:\s*"""([^"]*)"""', s)
SearchTripleContent(s) ==
  LET P == {p \in 1..Len(s) :
              /\ At(s, p) = "content" /\ At(s, p + 1) = COLON
              /\ TripleCapture(s, p + 2).found}
  IN IF P = {} THEN NoMatch ELSE TripleCapture(s, Min(P) + 2)

IsFence(s, p) == At(s, p) = BT /\ At(s, p + 1) = BT /\ At(s, p + 2) = BT

\* the group opened one symbol early: the line break after the tag is captured
FenceBody_KeepsNewline(s, q) ==
  LET r        == SkipStrWs(s, q)
      Close(c) == At(s, c) = NL /\ IsFence(s, c + 1)
      E        == {e \in q..(r - 1) :
                     s[e] = NL /\ \E c \in (e + 1)..Len(s) : Close(c)}
  IN IF E = {} THEN NoMatch
     ELSE LET e == Max(E)
              c == Min({d \in (e + 1)..Len(s) : Close(d)})
          IN [found |-> TRUE, from |-> e, to |-> c - 1]

\* \s*\n(.*?)\n``` (re.DOTALL) matched at position q: \s* is greedy, so the
\* \n is the last newline of the whitespace run after which a closing
\* "\n```" still follows; (.*?) is lazy, so it ends at the first such close.
FenceBody(s, q) ==
  LET r        == SkipStrWs(s, q)
      Close(c) == At(s, c) = NL /\ IsFence(s, c + 1)
      E        == {e \in q..(r - 1) :
                     s[e] = NL /\ \E c \in (e + 1)..Len(s) : Close(c)}
  IN IF E = {} THEN NoMatch
     ELSE LET e == Max(E)
              c == Min({d \in (e + 1)..Len(s) : Close(d)})
          IN [found |-> TRUE, from |-> e + 1, to |-> c - 1]

\* the text of  {target_language}?  inside an f-string pattern: all letters of
\* the language name but the last are required, the last one is optional
LangStem(lang) ==
  CASE lang = "python" -> <<"pytho">>
    [] lang = "java"   -> <<"jav">>
    [] lang = "cobol"  -> <<"cobo">>
    [] OTHER           -> <<lang>>
LangLast(lang) ==
  CASE lang = "python" -> "n"
    [] lang = "java"   -> "a"
    [] lang = "cobol"  -> "l"
    [] OTHER           -> "EOF"

\* position after  ```{target_language}?  matched at p, 0 when it does not match
AfterTag(s, p, lang) ==
  LET stem == LangStem(lang)
      q1   == p + 3 + Len(stem)
  IN IF IsFence(s, p) /\ q1 - 1 <= Len(s) /\ SubSeq(s, p + 3, q1 - 1) = stem
     THEN (IF At(s, q1) = LangLast(lang) THEN q1 + 1 ELSE q1)
     ELSE 0

\* first element of re.findall(rf'```{target_language}?\s*\n(.*?)\n```', s)
FindTaggedBlock(s, lang) ==
  LET P == {p \in 1..Len(s) :
              AfterTag(s, p, lang) # 0 /\ FenceBody(s, AfterTag(s, p, lang)).found}
  IN IF P = {} THEN NoMatch ELSE FenceBody(s, AfterTag(s, Min(P), lang))

\* first element of re.findall(r'```\s*\n(.*?)\n```', s)
FindGenericBlock(s) ==
  LET P == {p \in 1..Len(s) : IsFence(s, p) /\ FenceBody(s, p + 3).found}
  IN IF P = {} THEN NoMatch ELSE FenceBody(s, Min(P) + 3)

Capture(s, m) == SubSeq(s, m.from, m.to)

\* str.replace of the two-symbol text <<a, b>> by r, left to right
RECURSIVE ReplacePair(_, _, _, _)
ReplacePair(s, a, b, r) ==
  IF s = <<>> THEN <<>>
  ELSE IF Len(s) >= 2 /\ s[1] = a /\ s[2] = b
       THEN r \o ReplacePair(SubSeq(s, 3, Len(s)), a, b, r)
       ELSE <<s[1]>> \o ReplacePair(Tail(s), a, b, r)

\* str.replace of the one-symbol text c by r
RECURSIVE ReplaceSym(_, _, _)
ReplaceSym(s, c, r) ==
  IF s = <<>> THEN <<>>
  ELSE (IF s[1] = c THEN r ELSE <<s[1]>>) \o ReplaceSym(Tail(s), c, r)

\* str.strip() leaves nothing
IsBlank(s) == \A i \in 1..Len(s) : s[i] \in StrWs

\* '\\n' in content
HasEscapedNewline(s) == \E i \in 1..(Len(s) - 1) : s[i] = BS /\ s[i + 1] = "n"

\* ------------------------------------------------------------------------
\* CodeConverter._fix_common_json_issues  (code_converter.py:851-886)
\* ------------------------------------------------------------------------
\* lines 857-874: escape quotes, newlines and tabs inside the matched content
FixContentField(s) ==
  LET m == SearchQuotedContent(s) IN
  IF ~m.found THEN s
  ELSE LET c0 == Capture(s, m)
           c1 == ReplaceSym(c0, DQ, <<BS, DQ>>)
           c2 == ReplaceSym(c1, NL, <<BS, "n">>)
           c3 == ReplaceSym(c2, TAB, <<BS, "t">>)
       IN SubSeq(s, 1, m.from - 1) \o c3 \o SubSeq(s, m.to + 1, Len(s))

\* line 877: re.sub(r',(\s*[}\]])', r'\1', s)
RECURSIVE RemoveTrailingCommasFrom(_, _)
RemoveTrailingCommasFrom(s, i) ==
  IF i > Len(s) THEN <<>>
  ELSE IF s[i] = COMMA /\ At(s, SkipStrWs(s, i + 1)) \in {RB, RS}
       THEN RemoveTrailingCommasFrom(s, i + 1)
       ELSE <<s[i]>> \o RemoveTrailingCommasFrom(s, i + 1)
RemoveTrailingCommas(s) == RemoveTrailingCommasFrom(s, 1)

\* end of the run of word symbols that starts at i
RECURSIVE WordEnd(_, _)
WordEnd(s, i) == IF At(s, i + 1) \in WordSyms THEN WordEnd(s, i + 1) ELSE i

\* line 880: re.sub(r'(\s*)(\w+)(\s*):', r'\1"\2"\3:', s): every run of word
\* symbols followed by optional whitespace and a colon gets quoted, wherever
\* it stands
RECURSIVE QuoteBareKeysFrom(_, _)
QuoteBareKeysFrom(s, i) ==
  IF i > Len(s) THEN <<>>
  ELSE IF s[i] \in WordSyms
       THEN LET j == WordEnd(s, i)
                w == SubSeq(s, i, j)
            IN (IF At(s, SkipStrWs(s, j + 1)) = COLON
                THEN <<DQ>> \o w \o <<DQ>> ELSE w)
               \o QuoteBareKeysFrom(s, j + 1)
       ELSE <<s[i]>> \o QuoteBareKeysFrom(s, i + 1)
QuoteBareKeys(s) == QuoteBareKeysFrom(s, 1)

FixCommonJsonIssues(json_str) ==
  QuoteBareKeys(RemoveTrailingCommas(FixContentField(json_str)))

\* ------------------------------------------------------------------------
\* Paths and the static tables of code_converter.py
\* ------------------------------------------------------------------------
RECURSIVE LastIndex(_, _)
LastIndex(s, c) ==
  IF s = <<>> THEN 0
  ELSE IF s[Len(s)] = c THEN Len(s)
  ELSE LastIndex(SubSeq(s, 1, Len(s) - 1), c)

\* os.path.basename
Basename(path) == SubSeq(path, LastIndex(path, "/") + 1, Len(path))

\* os.path.splitext(name)[0]: cut at the last dot unless only dots precede it
SplitextStem(name) ==
  LET d == LastIndex(name, ".") IN
  IF d >= 1 /\ \E i \in 1..(d - 1) : name[i] # "."
  THEN SubSeq(name, 1, d - 1) ELSE name

\* CodeConverter._get_file_extension  (code_converter.py:373-385)
GetFileExtension(language) ==
  CASE language = "python"     -> "py"
    [] language = "java"       -> "java"
    [] language = "javascript" -> "js"
    [] language = "typescript" -> "ts"
    [] language = "go"         -> "go"
    [] language = "rust"       -> "rs"
    [] language = "cpp"        -> "cpp"
    [] language = "c"          -> "c"
    [] OTHER                   -> "txt"

\* str.lower() on a path symbol
Lower(sym) ==
  CASE sym = "App"        -> "app"
    [] sym = "Dockerfile" -> "dockerfile"
    [] sym = ".PY"        -> ".py"
    [] sym = "Main"       -> "main"
    [] sym = "Makefile"   -> "makefile"
    [] sym = "README"     -> "readme"
    [] sym = ".JSON"      -> ".json"
    [] OTHER              -> sym
LowerSeq(s) == [i \in 1..Len(s) |-> Lower(s[i])]

\* Python None for the optional target_framework argument
NoFramework == "None"
\* truth value of target_framework in "if target_framework:"
FrameworkGiven(fw) == fw # NoFramework /\ fw # ""

\* CodeConverter._get_framework_directory_structure (code_converter.py:468-539)
GetFrameworkDirectoryStructure(target_language, target_framework, original_path) ==
  IF ~FrameworkGiven(target_framework) \/ target_framework = "none"
  THEN original_path
  ELSE
    LET filename         == Basename(original_path)
        name_without_ext == SplitextStem(filename)
    IN CASE target_language = "java" ->
              IF target_framework \in {"spring", "spring_boot", "jakarta_ee"}
              THEN <<"src/main/java/com/example/">> \o LowerSeq(name_without_ext)
                   \o <<"/">> \o filename
              ELSE <<"src/">> \o filename
         [] target_language = "python" ->
              IF target_framework = "django" THEN <<"django_app/">> \o filename
              ELSE IF target_framework = "flask" THEN <<"flask_app/">> \o filename
              ELSE IF target_framework = "fastapi" THEN <<"fastapi_app/">> \o filename
              ELSE <<"src/">> \o filename
         [] target_language \in {"javascript", "typescript"} ->
              IF target_framework \in {"react", "vue"}
              THEN <<"src/components/">> \o filename
              ELSE IF target_framework = "angular" THEN <<"src/app/">> \o filename
              ELSE <<"src/">> \o filename
         [] target_language = "php" ->
              IF target_framework = "laravel" THEN <<"app/">> \o filename
              ELSE <<"src/">> \o filename
         [] target_language = "ruby" ->
              IF target_framework = "rails" THEN <<"app/">> \o filename
              ELSE <<"src/">> \o filename
         [] OTHER -> <<"src/">> \o filename

\* ------------------------------------------------------------------------
\* CodeConverter._extract_content_manually  (code_converter.py:888-944)
\* ------------------------------------------------------------------------
KeyFilename     == <<"f", "ilename">>
KeyContent      == <<"content">>
KeyDependencies == <<"dependencies">>
KeyNotes        == <<"n", "otes">>

\* Python None where a parsed object is expected
JNone == [t |-> "none", s |-> <<>>, kv |-> <<>>]

ManualNotes(original_file_path) ==
  <<"Manually extracted from AI response for ">> \o original_file_path

\* lines 923-924: content.replace('\\n','\n').replace('\\t','\t').replace('\\"','"')
UnescapeCommon(c) ==
  ReplacePair(ReplacePair(ReplacePair(c, BS, "n", <<NL>>), BS, "t", <<TAB>>),
              BS, DQ, <<DQ>>)

\* lines 896-926: code_blocks[0] when the list is not empty
FirstCodeBlock(ai_response, target_language) ==
  LET tagged  == FindTaggedBlock(ai_response, target_language)
      generic == FindGenericBlock(ai_response)
      p1      == SearchQuotedContent(ai_response)
      p2      == SearchBareContent(ai_response)
      p3      == SearchBacktickContent(ai_response)
      p4      == SearchTripleContent(ai_response)
      Some(c) == [found |-> TRUE, content |-> c]
  IN IF tagged.found THEN Some(Capture(ai_response, tagged))
     ELSE IF generic.found THEN Some(Capture(ai_response, generic))
     ELSE IF p1.found THEN Some(UnescapeCommon(Capture(ai_response, p1)))
     ELSE IF p2.found THEN Some(UnescapeCommon(Capture(ai_response, p2)))
     ELSE IF p3.found THEN Some(UnescapeCommon(Capture(ai_response, p3)))
     ELSE IF p4.found THEN Some(UnescapeCommon(Capture(ai_response, p4)))
     ELSE [found |-> FALSE, content |-> <<>>]

\* a raw fallback in place of lines 939-940: the response itself as content
ExtractContentManually_RawFallback(ai_response, target_language, original_file_path) ==
  LET original_name == SplitextStem(Basename(original_file_path))
      filename      == original_name \o <<".", GetFileExtension(target_language)>>
      block         == FirstCodeBlock(ai_response, target_language)
  IN JObj(<< [k |-> KeyFilename,     v |-> JStr(filename)],
             [k |-> KeyContent,      v |-> JStr(IF block.found THEN block.content
                                                ELSE ai_response)],
             [k |-> KeyDependencies, v |-> JObj(<<>>)],
             [k |-> KeyNotes,        v |-> JStr(ManualNotes(original_file_path))] >>)

ExtractContentManually(ai_response, target_language, original_file_path) ==
  LET original_name == SplitextStem(Basename(original_file_path))
      filename      == original_name \o <<".", GetFileExtension(target_language)>>
      block         == FirstCodeBlock(ai_response, target_language)
  IN IF block.found
     THEN JObj(<< [k |-> KeyFilename,     v |-> JStr(filename)],
                  [k |-> KeyContent,      v |-> JStr(block.content)],
                  [k |-> KeyDependencies, v |-> JObj(<<>>)],
                  [k |-> KeyNotes,        v |-> JStr(ManualNotes(original_file_path))] >>)
     ELSE JNone

\* ------------------------------------------------------------------------
\* CodeConverter._parse_single_file_conversion (code_converter.py:764-849)
\* ------------------------------------------------------------------------
VARIABLES
  ai_response,         \* argument: the model's output text
  target_language,     \* argument
  original_file_path,  \* argument
  target_framework,    \* argument (NoFramework for None)
  pc,                  \* position inside _parse_single_file_conversion
  json_str,            \* local: ai_response[start_idx:end_idx]
  json_data,           \* local: parsed object, JNone for None
  chain,               \* strategies attempted so far, with their outcome
  result,              \* value returned to the caller
  raised               \* exception that reached the caller, "none" if none

rvars == <<ai_response, target_language, original_file_path, target_framework,
           pc, json_str, json_data, chain, result, raised>>

\* ASTParser.parse_file (ast_parser.py:304-370)
VARIABLES
  file,                \* the file on disk that file_path names
  language,            \* argument: the project's source language
  fpc,                 \* position inside parse_file
  content_read,        \* local content, <<>> while nothing has been read
  file_ast,            \* value returned to the caller
  extractor_error,     \* exception an extractor swallowed, "none" if none
  fexc,                \* exception on its way to the handler of line 368
  fraised              \* exception that reached the caller, "none" if none

fvars == <<file, language, fpc, content_read, file_ast, extractor_error,
           fexc, fraised>>

\* ASTParser.parse_project (ast_parser.py:120-204)
VARIABLES
  all_files,           \* local: the files to parse, after dedupe/sort/limit
  source_language,     \* argument
  batch_i,             \* loop variable i of line 180 (0-based offset)
  batch_j,             \* loop variable j of line 184 (1-based within batch)
  ast_data,            \* local: the records collected so far
  ppc,                 \* position inside parse_project
  praised              \* exception that reached the caller, "none" if none

\* the ASTParser instance and the project directory it is pointed at
VARIABLES
  supported_languages, \* self.supported_languages (lines 19-94)
  limits,              \* the class attributes of lines 13-15 as the instance sees them
  project_tree,                \* the entries below project_dir, in path order
  walk_error,          \* what enumerating the directory raises, "none" if nothing
  calls,               \* parse_project calls made on the instance so far
  handed               \* the paths given to parse_file by the current call, in order

pvars == <<all_files, source_language, batch_i, batch_j, ast_data, ppc, praised,
           supported_languages, limits, project_tree, walk_error, calls, handed>>

\* CodeConverter.convert_code (code_converter.py:34-124); its arguments
\* ast_data, source_language, target_language and target_framework are the
\* variables of those names above
VARIABLES
  cpc,                 \* position inside convert_code
  file_index,          \* position of the loop of line 51 in ast_data
  converted_files,     \* local
  all_dependencies,    \* local
  replies,             \* what the language model answered so far, in order
  conversion,          \* value returned to the caller
  craised              \* exception that reached the caller, "none" if none

cvars == <<cpc, file_index, converted_files, all_dependencies, replies,
           conversion, craised>>

\* ASTParser._extract_code_block (ast_parser.py:1188-1213), one line visit
\* per step; the arguments and the returned lines also serve the calls of
\* _extract_variable_declaration and _extract_cobol_block
VARIABLES
  scan_lines,          \* argument lines
  scan_start,          \* argument start_line (1-based)
  scan_i,              \* loop variable i of lines 1196 and 1204 (0-based)
  scan_count,          \* local brace_count
  scan_end,            \* local end_idx
  scan_visits,         \* lines visited by the two loops so far
  scan_span,           \* the lines joined into the returned string
  bpc                  \* position inside the scan that is running

bvars == <<scan_lines, scan_start, scan_i, scan_count, scan_end, scan_visits,
           scan_span, bpc>>

\* ASTParser._detect_language_from_file (ast_parser.py:372-458)
VARIABLES
  detect_path,         \* argument file_path
  detect_default,      \* argument default_language
  detected,            \* value returned to the caller, "" before the return
  dpc                  \* position inside _detect_language_from_file

dvars == <<detect_path, detect_default, detected, dpc>>

\* the /api/parse endpoint (main.py:241-301) serving one request
VARIABLES
  world,               \* what the database, the disk and the parser do
                       \* during the request
  stored_status,       \* the project's status field in the database
  status_log,          \* the statuses written by this request, in order
  epc,                 \* position inside parse_project of main.py
  response             \* how the request ended, "none" while it runs

evars == <<world, stored_status, status_log, epc, response>>

vars == <<rvars, fvars, pvars, cvars, bvars, dvars, evars>>

\* the returned dict, or None
RNone == [found |-> FALSE, filename |-> JNull, content |-> <<>>,
          dependencies |-> JNull, notes |-> JNull]
RSome(f, c, d, n) == [found |-> TRUE, filename |-> f, content |-> c,
                      dependencies |-> d, notes |-> n]

\* lines 781-785: the candidate substring; found is the guard of line 784
RECURSIVE FirstIndex(_, _, _)
FirstIndex(s, i, c) ==
  IF i > Len(s) THEN 0 ELSE IF s[i] = c THEN i ELSE FirstIndex(s, i + 1, c)

\* line 782 without the "+ 1": the slice stops before the last brace
JsonCandidate_ShortEnd(text) ==
  LET start_idx == FirstIndex(text, 1, LB)
      end_idx   == LastIndex(text, RB)
  IN [found |-> start_idx # 0 /\ end_idx # 0,
      str   |-> IF start_idx # 0 /\ end_idx # 0
                THEN SubSeq(text, start_idx, end_idx - 1) ELSE <<>>]

JsonCandidate(text) ==
  LET start_idx == FirstIndex(text, 1, LB)
      end_idx   == LastIndex(text, RB)
  IN [found |-> start_idx # 0 /\ end_idx # 0,
      str   |-> IF start_idx # 0 /\ end_idx # 0
                THEN SubSeq(text, start_idx, end_idx) ELSE <<>>]

\* truth value of json_data in "if json_data:"
Truthy(jd) == jd.t = "obj" /\ jd.kv # <<>>

\* lines 826-828 left out: blank content is returned like any other
PostProcess_NoBlankCheck(jd, lang, path, fw) ==
  IF ~Truthy(jd) THEN [exc |-> "none", ret |-> RNone]
  ELSE
    LET filename     == DictGet(jd.kv, KeyFilename, JStr(<<>>))
        content      == DictGet(jd.kv, KeyContent, JStr(<<>>))
        dependencies == DictGet(jd.kv, KeyDependencies, JObj(<<>>))
        notes        == DictGet(jd.kv, KeyNotes, JStr(<<>>))
    IN
    IF content.t \in {"null", "num", "obj"} THEN [exc |-> "TypeError", ret |-> RNone]
    ELSE IF content.t = "arr" THEN [exc |-> "AttributeError", ret |-> RNone]
    ELSE
      LET c1 == IF HasEscapedNewline(content.s)
                THEN ReplacePair(content.s, BS, "n", <<NL>>) ELSE content.s
      IN [exc |-> "none",
          ret |-> RSome(IF FrameworkGiven(fw)
                        THEN JStr(GetFrameworkDirectoryStructure(lang, fw, path))
                        ELSE filename,
                        c1, dependencies, notes)]

\* lines 809-844, the body under the outer try: the value it returns, or the
\* exception it raises
PostProcess(jd, lang, path, fw) ==
  IF ~Truthy(jd) THEN [exc |-> "none", ret |-> RNone]
  ELSE
    LET filename     == DictGet(jd.kv, KeyFilename, JStr(<<>>))
        content      == DictGet(jd.kv, KeyContent, JStr(<<>>))
        dependencies == DictGet(jd.kv, KeyDependencies, JObj(<<>>))
        notes        == DictGet(jd.kv, KeyNotes, JStr(<<>>))
    IN
    \* len(content) on None or a number; content[:200] on a dict
    IF content.t \in {"null", "num", "obj"} THEN [exc |-> "TypeError", ret |-> RNone]
    \* content.strip() / content.replace() on a list
    ELSE IF content.t = "arr" THEN [exc |-> "AttributeError", ret |-> RNone]
    ELSE
      LET c1 == IF HasEscapedNewline(content.s)
                THEN ReplacePair(content.s, BS, "n", <<NL>>) ELSE content.s
      IN IF IsBlank(c1) THEN [exc |-> "none", ret |-> RNone]
         ELSE [exc |-> "none",
               ret |-> RSome(IF FrameworkGiven(fw)
                             THEN JStr(GetFrameworkDirectoryStructure(lang, fw, path))
                             ELSE filename,
                             c1, dependencies, notes)]

\* the handler of lines 846-849 left out: the exception propagates
OuterHandler_NoCatch(outcome) == outcome

\* lines 846-849: "except Exception: return None" around the whole body
OuterHandler(outcome) ==
  IF outcome.exc # "none" THEN [exc |-> "none", ret |-> RNone] ELSE outcome

\* line 805 without its guard: manual extraction runs after every parse
NeedsManual_Always(jd) == TRUE

\* line 805: manual extraction runs exactly when json_data is None
NeedsManual(jd) == jd.t = "none"

\* Strategy 1 (lines 780-793)
DirectParse ==
  /\ pc = "strategy1"
  /\ LET cand == JsonCandidate(ai_response) IN
       IF ~cand.found
       THEN /\ pc' = "strategy3"
            /\ UNCHANGED <<json_str, json_data, chain>>
       ELSE LET r == JsonLoads(cand.str) IN
            /\ json_str' = cand.str
            /\ chain' = Append(chain, [s |-> "direct", ok |-> r.ok])
            /\ json_data' = IF r.ok THEN r.v ELSE JNone
            /\ pc' = IF ~r.ok THEN "strategy2"
                     ELSE IF NeedsManual(json_data') THEN "strategy3" ELSE "post"
  /\ UNCHANGED <<ai_response, target_language, original_file_path,
                 target_framework, result, raised>>
  /\ UNCHANGED <<fvars, pvars, cvars, bvars, dvars, evars>>

\* Strategy 2 (lines 795-802)
RepairParse ==
  /\ pc = "strategy2"
  /\ LET r == JsonLoads(FixCommonJsonIssues(json_str)) IN
       /\ chain' = Append(chain, [s |-> "repair", ok |-> r.ok])
       /\ json_data' = IF r.ok THEN r.v ELSE JNone
       /\ pc' = IF NeedsManual(json_data') THEN "strategy3" ELSE "post"
  /\ UNCHANGED <<ai_response, target_language, original_file_path,
                 target_framework, json_str, result, raised>>
  /\ UNCHANGED <<fvars, pvars, cvars, bvars, dvars, evars>>

\* Strategy 3 (lines 804-807)
ManualExtract ==
  /\ pc = "strategy3"
  /\ json_data' = ExtractContentManually(ai_response, target_language,
                                         original_file_path)
  /\ chain' = Append(chain, [s |-> "manual", ok |-> json_data'.t # "none"])
  /\ pc' = "post"
  /\ UNCHANGED <<ai_response, target_language, original_file_path,
                 target_framework, json_str, result, raised>>
  /\ UNCHANGED <<fvars, pvars, cvars, bvars, dvars, evars>>

\* lines 809-849
Return ==
  /\ pc = "post"
  /\ LET out == OuterHandler(PostProcess(json_data, target_language,
                                         original_file_path, target_framework))
     IN /\ result' = out.ret
        /\ raised' = out.exc
  /\ pc' = "returned"
  /\ UNCHANGED <<ai_response, target_language, original_file_path,
                 target_framework, json_str, json_data, chain>>
  /\ UNCHANGED <<fvars, pvars, cvars, bvars, dvars, evars>>

\* ------------------------------------------------------------------------
\* Model output texts handed to the Recovery Parser
\* ------------------------------------------------------------------------
MaxBodyLen == 2     \* longest enumerated string body / code block body
MaxJunkLen == 3     \* longest enumerated free text

\* all sequences over S of length at most n
SeqsUpTo(S, n) == UNION {[1..k -> S] : k \in 0..n}

StrLit(body) == <<DQ>> \o body \o <<DQ>>
Fence == <<BT, BT, BT>>

\* symbols enumerated inside a JSON string body
BodySyms == {"x", SP, BS, "n", COLON, COMMA, RB, NL, DQ}
\* bodies of the content value that are written out because they are longer
LongBodies == { <<"x", EQ, "1">>, <<"x", BS, BS, "n", "x">>, <<"x", BS, DQ, "x">>,
                <<"x", COLON, SP, "1">>, <<"x", COMMA, SP, RB>>,
                <<"x", BS, "n", "x">>, <<"x", TAB, "x">>,
                Fence \o <<BS, "n", "x", BS, "n">> \o Fence,
                Fence \o <<NL, "x", NL>> \o Fence }
ContentValues ==
  {StrLit(b) : b \in SeqsUpTo(BodySyms, MaxBodyLen) \cup LongBodies}
  \cup { <<"n", "ull">>, <<"1">>, <<LS, RS>>, <<LS, DQ, "x", DQ, RS>>,
         <<LS, DQ, BS, BS, "n", DQ, RS>>, <<LB, RB>> }
NotesValues == {StrLit(<<"ok">>), StrLit(<<"n", "otes", COLON, "ok">>), <<"1">>}
DepsValues  == { <<LB, RB>>,
                 <<LB, DQ, "x", DQ, COLON, DQ, "1", DQ, RB>>,
                 <<LB, DQ, "x", DQ, COLON, LS, "1", COMMA, RS, RB>> }

\* {"filename":"a.py","content":<cv>,"dependencies":<dv>,"notes":<nv><tail>}
FullObject(cv, dv, nv, tail) ==
  <<LB>> \o StrLit(KeyFilename) \o <<COLON>> \o StrLit(<<"a", ".", "py">>)
  \o <<COMMA>> \o StrLit(KeyContent) \o <<COLON>> \o cv
  \o <<COMMA>> \o StrLit(KeyDependencies) \o <<COLON>> \o dv
  \o <<COMMA>> \o StrLit(KeyNotes) \o <<COLON>> \o nv \o tail \o <<RB>>

ObjectTexts ==
  {FullObject(cv, <<LB, RB>>, StrLit(<<"ok">>), tail) :
      cv \in ContentValues, tail \in {<<>>, <<COMMA>>, <<COMMA, NL>>}}
  \cup
  {FullObject(StrLit(<<"x", EQ, "1">>), dv, nv, tail) :
      dv \in DepsValues, nv \in NotesValues, tail \in {<<>>, <<COMMA>>}}
  \cup
  \* objects with a bare key, without some fields, or wrapped in prose
  { <<LB, "content", COLON>> \o StrLit(<<"x">>) \o <<RB>>,
    <<LB>> \o StrLit(KeyContent) \o <<COLON, SP>> \o StrLit(<<"x", NL, "x">>) \o <<RB>>,
    <<LB>> \o StrLit(KeyFilename) \o <<COLON>> \o StrLit(<<"a">>) \o <<RB>>,
    <<LB, RB>>,
    <<LB>> \o StrLit(KeyContent) \o <<SP, COLON>> \o StrLit(<<"x">>) \o <<COMMA, RB>>,
    <<LB, "content", SP, COLON>> \o StrLit(<<"x">>) \o <<RB>>,
    <<LB, "x", COLON, "1", RB>>,
    <<"ok", SP>> \o FullObject(StrLit(<<"x">>), <<LB, RB>>, StrLit(<<"ok">>), <<>>)
       \o <<NL, "ok">>,
    <<"ok", COLON, NL>> \o Fence \o <<NL>>
       \o FullObject(StrLit(<<"x">>), <<LB, RB>>, StrLit(<<"ok">>), <<COMMA>>)
       \o <<NL>> \o Fence }

\* symbols enumerated inside a fenced block
BlockSyms == {"x", SP, NL, BS, "n", LB, RB, COLON}
BlockBodies == SeqsUpTo(BlockSyms, MaxBodyLen)
                 \cup { <<"x", EQ, "1">>, <<"x", EQ, LB, "x", COLON, "1", RB>>,
                        <<"x", BS, "n", "x">>, <<"x", NL, Fence[1], "x">> }
FenceTags == { <<>>, <<"pytho", "n">>, <<"pytho">>, <<"jav", "a">>, <<"pytho", "n", SP>> }
FencedTexts ==
  {<<"ok", COLON, NL>> \o Fence \o tag \o <<NL>> \o b \o <<NL>> \o Fence \o <<NL>> :
      tag \in FenceTags, b \in BlockBodies}
  \cup
  \* an untagged block before a tagged one; a block that is never closed
  { Fence \o <<NL, "x", NL>> \o Fence \o <<NL>> \o Fence \o <<"pytho", "n", NL, "ok", NL>> \o Fence,
    Fence \o <<"pytho", "n", NL, "x", NL>> }

\* content: "..." , content: `...` , content: """...""" and "content": "..."
MarkerTexts ==
  {<<"ok", SP>> \o key \o <<COLON, SP>> \o open \o b \o open :
      key  \in {<<"content">>, StrLit(<<"content">>)},
      open \in {<<DQ>>, <<BT>>, <<DQ, DQ, DQ>>},
      b    \in {<<"x">>, <<"x", BS, "n", "x">>, <<>>, <<SP>>, <<"x", BS, DQ, "x">>}}

\* free text
JunkSyms == {"x", SP, LB, RB, DQ, COLON, COMMA, "content"}
JunkTexts == SeqsUpTo(JunkSyms, MaxJunkLen)

Responses == ObjectTexts \cup FencedTexts \cup MarkerTexts \cup JunkTexts

TargetLanguages  == {"python", "java", "cobol"}
TargetFrameworks == {NoFramework, "none", "django", "spring"}
OriginalPaths    == { <<"dir", "/", "App", ".", "java">>, <<"a">> }


\* ------------------------------------------------------------------------
\* Properties of the Recovery Parser
\* ------------------------------------------------------------------------
Returned == pc = "returned"

ObjField(o, key)  == DictGet(o.kv, key, JNull)
\* a JSON object with string filename, content (not blank) and notes and an
\* object dependencies
WellFormedFull(text) ==
  LET r == JsonLoads(text) IN
  /\ r.ok /\ r.v.t = "obj"
  /\ ObjField(r.v, KeyFilename).t = "str"
  /\ ObjField(r.v, KeyContent).t = "str"
  /\ ObjField(r.v, KeyNotes).t = "str"
  /\ ObjField(r.v, KeyDependencies).t = "obj"
  /\ ~IsBlank(ObjField(r.v, KeyContent).s)

DirectOnly   == <<[s |-> "direct", ok |-> TRUE]>>
RepairedOnly == <<[s |-> "direct", ok |-> FALSE], [s |-> "repair", ok |-> TRUE]>>

\* C2: for every input text the Recovery Parser returns without raising, and
\* what it returns is None or a result with filename, content, dependencies
\* and notes.
C2_NeverRaises ==
  Returned =>
    /\ raised = "none"
    /\ \/ result = RNone
       \/ /\ result.found
          /\ DOMAIN result = {"found", "filename", "content", "dependencies", "notes"}

\* the content field of the parsed object is null, a number or a list, and the
\* parser has returned None
C2_Witness ==
  /\ Returned /\ Truthy(json_data)
  /\ ObjField(json_data, KeyContent).t \in {"null", "num", "arr"}
  /\ result = RNone /\ raised = "none"

\* C3: the strategies run as an ordered short-circuiting chain: direct parse
\* first, repair only after a failed direct parse, manual extraction only
\* after both failed or when there is no brace-delimited substring; each at
\* most once, and nothing runs after a strategy that succeeded.
C3_OrderedChain ==
  /\ Len(chain) <= 3
  /\ \A i, j \in 1..Len(chain) : chain[i].s = chain[j].s => i = j
  /\ \A i \in 1..Len(chain) :
       /\ chain[i].ok => i = Len(chain) /\ pc \in {"post", "returned"}
       /\ chain[i].s = "direct" => i = 1 /\ JsonCandidate(ai_response).found
       /\ chain[i].s = "repair" =>
            i = 2 /\ chain[1] = [s |-> "direct", ok |-> FALSE]
       /\ chain[i].s = "manual" =>
            \/ i = 1 /\ ~JsonCandidate(ai_response).found
            \/ /\ i = 3
               /\ chain[1] = [s |-> "direct", ok |-> FALSE]
               /\ chain[2] = [s |-> "repair", ok |-> FALSE]
  /\ (pc # "strategy1" /\ JsonCandidate(ai_response).found) =>
       (chain # <<>> /\ chain[1].s = "direct")

\* all three strategies ran, and one that ended at the first
C3_Witness ==
  /\ Returned /\ Len(chain) = 3 /\ chain[3].s = "manual" /\ chain[3].ok

RemoveAt(s, p) == SubSeq(s, 1, p - 1) \o SubSeq(s, p + 1, Len(s))
\* commas directly before a closing brace or bracket whose removal leaves a
\* well-formed object
TrailingCommas(text) ==
  {p \in 1..Len(text) :
     /\ text[p] = COMMA /\ At(text, p + 1) \in {RB, RS}
     /\ WellFormedFull(RemoveAt(text, p))}

\* C5: an object that is well-formed except for one trailing comma fails the
\* direct parse and is recovered by repair-then-parse, with the content the
\* object has without that comma.
C5_TrailingCommaRepaired ==
  (Returned /\ ~JsonLoads(ai_response).ok) =>
    \A p \in TrailingCommas(ai_response) :
      /\ chain = RepairedOnly
      /\ result.found
      /\ result.content = ObjField(JsonLoads(RemoveAt(ai_response, p)).v, KeyContent).s

\* C8: a returned result always has content with a non-whitespace symbol.
C8_NoBlankContent ==
  (Returned /\ result.found) => ~IsBlank(result.content)

\* a strategy recovered a blank content string and None was returned
C8_Witness ==
  /\ Returned /\ Truthy(json_data)
  /\ ObjField(json_data, KeyContent).t = "str"
  /\ IsBlank(ObjField(json_data, KeyContent).s)
  /\ ObjField(json_data, KeyContent).s # <<>>
  /\ result = RNone

\* some '{' ... '}' part of the text is a JSON object
ContainsJsonObject(text) ==
  \E i, j \in 1..Len(text) :
    i < j /\ text[i] = LB /\ text[j] = RB /\ JsonLoads(SubSeq(text, i, j)).ok

FencePositions(text) == {p \in 1..Len(text) : IsFence(text, p)}
LangName(lang) == LangStem(lang) \o <<LangLast(lang)>>

\* the text holds exactly one fenced block and its opening fence carries the
\* target language's name, followed by a line break
HasOneTaggedBlock(text, lang) ==
  /\ Cardinality(FencePositions(text)) = 2
  /\ LET p == Min(FencePositions(text))
         c == Max(FencePositions(text))
         q == p + 3 + Len(LangName(lang))
     IN /\ q <= Len(text)
        /\ SubSeq(text, p + 3, q - 1) = LangName(lang)
        /\ text[q] = NL
        /\ c - 1 >= q /\ text[c - 1] = NL
\* the text between the line break after the tag and the one before the close
BlockBody(text, lang) ==
  LET p == Min(FencePositions(text))
      c == Max(FencePositions(text))
      q == p + 3 + Len(LangName(lang))
  IN SubSeq(text, q + 1, c - 2)

\* a body without its leading blank lines (the indentation of the first
\* non-blank line stays)
DropLeadingBlankLines(b) ==
  LET lead == {i \in 1..Len(b) : \A j \in 1..i : b[j] \in StrWs}
      nls  == {i \in lead : b[i] = NL}
  IN IF nls = {} THEN b ELSE SubSeq(b, Max(nls) + 1, Len(b))

ManualFilename(lang, path) ==
  JStr(SplitextStem(Basename(path)) \o <<".", GetFileExtension(lang)>>)

\* neither the direct parse nor the repaired parse of the brace-delimited
\* substring yields an object
NoParsableCandidate(text) ==
  LET cand == JsonCandidate(text) IN
  \/ ~cand.found
  \/ ~JsonLoads(cand.str).ok /\ ~JsonLoads(FixCommonJsonIssues(cand.str)).ok

\* C6 as stated: prose without a JSON object and with a fenced block tagged
\* with the target language yields, by manual extraction, the text between the
\* fences, empty dependencies, the manual-extraction note and the file name
\* <original base name>.<target extension>.
C6_FencedBlockReturnedAsIs ==
  (Returned /\ HasOneTaggedBlock(ai_response, target_language)
            /\ ~IsBlank(BlockBody(ai_response, target_language))
            /\ ~ContainsJsonObject(ai_response)) =>
    /\ chain # <<>> /\ chain[Len(chain)] = [s |-> "manual", ok |-> TRUE]
    /\ result = RSome(ManualFilename(target_language, original_file_path),
                      BlockBody(ai_response, target_language),
                      JObj(<<>>), JStr(ManualNotes(original_file_path)))

\* C6 (amended): when the brace-delimited substring (if any) parses neither
\* directly nor after repair, the text holds exactly one fenced block, tagged
\* with the target language, and no target framework is given: the content is
\* the block's text without its leading blank lines and with every backslash-n
\* pair replaced by a line break; it is returned by manual extraction with
\* empty dependencies, the manual-extraction note and the file name
\* <original base name>.<target extension>; if that content is blank the
\* result is None.
C6_FencedBlockReturnedUnescaped ==
  (Returned /\ target_framework = NoFramework
            /\ HasOneTaggedBlock(ai_response, target_language)
            /\ NoParsableCandidate(ai_response)) =>
    LET c1 == ReplacePair(DropLeadingBlankLines(BlockBody(ai_response, target_language)),
                          BS, "n", <<NL>>)
    IN IF IsBlank(c1) THEN result = RNone
       ELSE /\ chain[Len(chain)] = [s |-> "manual", ok |-> TRUE]
            /\ result = RSome(ManualFilename(target_language, original_file_path),
                              c1, JObj(<<>>), JStr(ManualNotes(original_file_path)))

\* a tagged block with a backslash-n pair in its text was returned
C6_Witness ==
  /\ Returned /\ target_framework = NoFramework
  /\ HasOneTaggedBlock(ai_response, target_language)
  /\ HasEscapedNewline(BlockBody(ai_response, target_language))
  /\ result.found

\* the word content followed, after an optional closing quote and optional
\* whitespace, by a colon
HasContentMarker(text) ==
  \E p \in 1..Len(text) :
    /\ text[p] = "content"
    /\ At(text, SkipStrWs(text, IF At(text, p + 1) = DQ THEN p + 2 ELSE p + 1)) = COLON

PlainProse(text) ==
  /\ FencePositions(text) = {}
  /\ ~HasContentMarker(text)
  /\ ~ContainsJsonObject(text)

\* C7: plain prose with no JSON, no code fence and no content marker yields
\* None: no result at all, and no exception.
C7_PlainProseNotFound ==
  (Returned /\ PlainProse(ai_response)) => (result = RNone /\ raised = "none")

\* prose of several symbols, with and without braces, went through manual
\* extraction and came back as None
C7_Witness ==
  /\ Returned /\ PlainProse(ai_response) /\ Len(ai_response) >= 3
  /\ JsonCandidate(ai_response).found
  /\ chain # <<>> /\ chain[Len(chain)] = [s |-> "manual", ok |-> FALSE]
  /\ result = RNone

\* the strategy that produced json_data: the last one of the chain
LastStrategy == chain[Len(chain)].s

\* a content that begins and ends with a markdown fence marker
FenceWrapped(c) ==
  /\ Len(c) >= 2 * Len(Fence)
  /\ SubSeq(c, 1, Len(Fence)) = Fence
  /\ SubSeq(c, Len(c) - Len(Fence) + 1, Len(c)) = Fence

\* C22: the content returned holds no escaped newline (backslash, n),
\* whichever strategy recovered it, and a content recovered by direct parse
\* or by repair-then-parse is not returned wrapped in markdown code fences
C22_PostProcessed ==
  (Returned /\ result.found) =>
     /\ ~HasEscapedNewline(result.content)
     /\ LastStrategy \in {"direct", "repair"} => ~FenceWrapped(result.content)

\* prose followed by one fenced block with the tag and the body given
FencedForm(tag, b) ==
  <<"ok", COLON, NL>> \o Fence \o tag \o <<NL>> \o b \o <<NL>> \o Fence \o <<NL>>

\* prose followed by a content marker whose value is delimited by open
MarkerForm(key, open, b) ==
  <<"ok", SP>> \o key \o <<COLON, SP>> \o open \o b \o open

\* an untagged block with the body x, then a block tagged python with the
\* body ok
UntaggedThenTagged ==
  Fence \o <<NL, "x", NL>> \o Fence \o <<NL>> \o Fence
  \o <<"pytho", "n", NL, "ok", NL>> \o Fence

\* manual extraction has just run
ManualDone == pc = "post" /\ chain # <<>> /\ LastStrategy = "manual"

\* manual extraction recovered the content b
Recovered(b) ==
  json_data.t = "obj" /\ ObjField(json_data, KeyContent) = JStr(b)

RawBodies(raw) ==
  {b \in SeqsUpTo(BodySyms, MaxBodyLen) \cup LongBodies :
     /\ ~IsBlank(b)
     /\ \A i \in 1..Len(b) : b[i] \in {"x", SP, DQ, NL, TAB}
     /\ \E i \in 1..Len(b) : b[i] \in raw}

\* the object whose content value is the body b as it stands
RawObject(b) == FullObject(StrLit(b), <<LB, RB>>, StrLit(<<"ok">>), <<>>)

\* C27: for an object whose content value holds raw double quotes, line
\* breaks or tabs, the repair escapes them inside the content value, so the
\* single re-parse succeeds and the content returned holds the original
\* quotes, line breaks and tabs
C27_ContentRepaired ==
  \A b \in RawBodies({DQ, NL, TAB}) :
    (Returned /\ ai_response = RawObject(b) /\ target_framework = NoFramework) =>
       /\ chain = << [s |-> "direct", ok |-> FALSE], [s |-> "repair", ok |-> TRUE] >>
       /\ result.found
       /\ result.content = b

\* the candidate has failed the direct parse and is about to be repaired
Repairing == pc = "strategy2"

\* C28: on a candidate that is a well-formed object but for one trailing
\* comma, the repair removes that comma and changes nothing else: no key is
\* bare, so no quotes are added, and the text inside the string values stays
\* as it is
C28_RepairFrame ==
  Repairing =>
    \A p \in TrailingCommas(json_str) :
      FixCommonJsonIssues(json_str) = RemoveAt(json_str, p)

\* ------------------------------------------------------------------------
\* Source text handed to the extractors of ast_parser.py
\*
\* A text is the non-empty sequence of its lines (content.split('\n')); a
\* line is one of the strings below, and every test the extractors make on a
\* line (strip, startswith, the regular expressions, the brace counts) is
\* tabulated for these strings.
\* ------------------------------------------------------------------------
PythonLines == {"", "import os", "from a import b", "x = 1", "def f():",
                "    return 1", "    import sys", "def f(:", "class C:", "    pass"}
JavaLines == {"", "// c", "import a.B;", "package p;", "public class A {",
              "public void f() {", "public void g();",
              "public int h() { return 1; }", "private int x;",
              "private int y =", "1;", "}", "  x();"}
PlainLines == {"", "  ", "a", " b "}

\* str.strip()
Strip(line) ==
  CASE line = "  "             -> ""
    [] line = " b "            -> "b"
    [] line = "  x();"         -> "x();"
    [] line = "    return 1"   -> "return 1"
    [] line = "    import sys" -> "import sys"
    [] line = "    pass"       -> "pass"
    [] line = "  DATA DIVISION." -> "DATA DIVISION."
    [] OTHER                   -> line

\* line.count('{') and line.count('}')
Opens(line) ==
  IF line = "if (a) { if (b) {" THEN 2
  ELSE IF line \in {"public class A {", "public void f() {",
                    "public int h() { return 1; }"} THEN 1 ELSE 0
Closes(line) ==
  IF line \in {"}", "public int h() { return 1; }"} THEN 1 ELSE 0

\* line.strip().endswith(';')
EndsWithSemicolon(line) ==
  line \in {"import a.B;", "package p;", "public void g();", "private int x;",
            "1;", "  x();"}

\* ------------------------------------------------------------------------
\* Block-span primitives (ast_parser.py:1188-1233)
\* ------------------------------------------------------------------------
\* lines 1196-1201: index (1-based) of the first line at or after i where the
\* running brace count becomes positive, with that count; 0 when none does
RECURSIVE FindOpening(_, _, _)
FindOpening(lines, i, brace_count) ==
  IF i > Len(lines) THEN [at |-> 0, count |-> brace_count]
  ELSE LET c == brace_count + Opens(lines[i]) - Closes(lines[i]) IN
       IF c > 0 THEN [at |-> i, count |-> c]
       ELSE FindOpening(lines, i + 1, c)

\* lines 1204-1209: index of the first line at or after i where the running
\* count is zero or less; 0 when none is
RECURSIVE FindClosing(_, _, _)
FindClosing(lines, i, brace_count) ==
  IF i > Len(lines) THEN 0
  ELSE LET c == brace_count + Opens(lines[i]) - Closes(lines[i]) IN
       IF c <= 0 THEN i ELSE FindClosing(lines, i + 1, c)

\* ASTParser._extract_code_block: the lines of the span.  end_idx is kept as
\* in the code: the number of lines before the exclusive end of the slice.
ExtractCodeBlock(lines, start_line) ==
  LET start_idx == start_line - 1
      open      == FindOpening(lines, start_line, 0)
      end_idx1  == IF open.at # 0 THEN open.at ELSE start_idx
      close     == FindClosing(lines, end_idx1 + 1, open.count)
      end_idx2  == IF close # 0 THEN close ELSE end_idx1
  IN SubSeq(lines, start_line, end_idx2)

\* lines 1226-1229: the lines appended after the declaration line
RECURSIVE AppendUntilSemicolon(_, _, _)
AppendUntilSemicolon(lines, i, last) ==
  IF i > last THEN <<>>
  ELSE IF EndsWithSemicolon(lines[i]) THEN <<lines[i]>>
  ELSE <<lines[i]>> \o AppendUntilSemicolon(lines, i + 1, last)

\* ASTParser._extract_variable_declaration
ExtractVariableDeclaration(lines, start_line) ==
  LET start_idx == start_line - 1
      stop      == IF start_idx + 5 < Len(lines) THEN start_idx + 5 ELSE Len(lines)
  IN IF EndsWithSemicolon(lines[start_line]) THEN <<lines[start_line]>>
     ELSE <<lines[start_line]>> \o AppendUntilSemicolon(lines, start_line + 1, stop)

\* one call of _extract_variable_declaration (lines 1215-1233) on the
\* arguments lines and start_line
ScanDeclaration ==
  /\ bpc = "declaration"
  /\ scan_span' = ExtractVariableDeclaration(scan_lines, scan_start)
  /\ bpc' = "declared"
  /\ UNCHANGED <<scan_lines, scan_start, scan_i, scan_count, scan_end, scan_visits>>
  /\ UNCHANGED <<rvars, fvars, pvars, cvars, dvars, evars>>

\* ------------------------------------------------------------------------
\* ASTParser._extract_cobol_block and the header tests of _parse_cobol_file
\* (ast_parser.py:1235-1251, 939-979), tabulated for the lines of CobolLines
\* ------------------------------------------------------------------------
\* line 943, on the stripped line: 'DIVISION' in line.upper()
IsDivisionLine(line) ==
  line \in {"IDENTIFICATION DIVISION.", "PROCEDURE DIVISION.",
            "DATA DIVISION.", "procedure division."}

\* line 962, the elif after line 943: 'SECTION' in line.upper()
IsSectionLine(line) ==
  ~IsDivisionLine(line) /\ line \in {"WORKING-STORAGE SECTION.", "SECTION-A."}

\* lines 1243-1245: the stripped line is not empty and starts with DIVISION,
\* SECTION, PROCEDURE or DATA (case-sensitive)
CobolBoundary(line) ==
  line \in {"PROCEDURE DIVISION.", "DATA DIVISION.", "SECTION-A.", "DATA-A."}

\* the loop of lines 1242-1246: end_idx when it ends, i the 1-based number
\* of the line visited
RECURSIVE CobolEnd(_, _, _)
CobolEnd(lines, i, end_idx) ==
  IF i > Len(lines) THEN end_idx
  ELSE IF CobolBoundary(Strip(lines[i])) THEN end_idx
  ELSE CobolEnd(lines, i + 1, i)

\* _extract_cobol_block: the lines of lines[start_idx:end_idx]; end_idx stays
\* start_idx when the line after the start line is a boundary
ExtractCobolBlock(lines, start_line) ==
  SubSeq(lines, start_line, CobolEnd(lines, start_line + 1, start_line - 1))

\* one call of _extract_cobol_block, as lines 945 and 964 make it for a
\* header line
ScanCobol ==
  /\ bpc = "cobol"
  /\ scan_span' = ExtractCobolBlock(scan_lines, scan_start)
  /\ bpc' = "sectioned"
  /\ UNCHANGED <<scan_lines, scan_start, scan_i, scan_count, scan_end, scan_visits>>
  /\ UNCHANGED <<rvars, fvars, pvars, cvars, dvars, evars>>

\* ------------------------------------------------------------------------
\* ASTParser._extract_code_block, one line visit per step (lines 1188-1213)
\* ------------------------------------------------------------------------
\* closing braces are not counted
BraceDelta_OpensOnly(line) == Opens(line)

\* line.count('{') - line.count('}')
BraceDelta(line) == Opens(line) - Closes(line)

\* the test of line 1199
Opened(brace_count) == brace_count > 0

\* the test of line 1207 with "<" for "<="
Closed_Strict(brace_count) == brace_count < 0

\* the test of line 1207
Closed(brace_count) == brace_count <= 0

\* one iteration of the loop of lines 1196-1201
VisitOpening ==
  /\ bpc = "opening"
  /\ scan_i < Len(scan_lines)
  /\ scan_count' = scan_count + BraceDelta(scan_lines[scan_i + 1])
  /\ scan_visits' = scan_visits + 1
  /\ IF Opened(scan_count')
     THEN /\ scan_end' = scan_i + 1
          /\ scan_i' = scan_i + 1
          /\ bpc' = "closing"
     ELSE /\ scan_i' = scan_i + 1
          /\ UNCHANGED <<scan_end, bpc>>
  /\ UNCHANGED <<scan_lines, scan_start, scan_span>>
  /\ UNCHANGED <<rvars, fvars, pvars, cvars, dvars, evars>>

\* the loop of lines 1196-1201 runs out of lines: the second loop starts at
\* end_idx, still the declaration line
NoOpening ==
  /\ bpc = "opening"
  /\ scan_i >= Len(scan_lines)
  /\ scan_i' = scan_end
  /\ bpc' = "closing"
  /\ UNCHANGED <<scan_lines, scan_start, scan_count, scan_end, scan_visits, scan_span>>
  /\ UNCHANGED <<rvars, fvars, pvars, cvars, dvars, evars>>

\* one iteration of the loop of lines 1204-1209
VisitClosing ==
  /\ bpc = "closing"
  /\ scan_i < Len(scan_lines)
  /\ scan_count' = scan_count + BraceDelta(scan_lines[scan_i + 1])
  /\ scan_visits' = scan_visits + 1
  /\ IF Closed(scan_count')
     THEN /\ scan_end' = scan_i + 1
          /\ bpc' = "join"
          /\ UNCHANGED scan_i
     ELSE /\ scan_i' = scan_i + 1
          /\ UNCHANGED <<scan_end, bpc>>
  /\ UNCHANGED <<scan_lines, scan_start, scan_span>>
  /\ UNCHANGED <<rvars, fvars, pvars, cvars, dvars, evars>>

\* line 1211: '\n'.join(lines[start_idx:end_idx])
ReturnSpan ==
  /\ \/ bpc = "join"
     \/ bpc = "closing" /\ scan_i >= Len(scan_lines)
  /\ scan_span' = SubSeq(scan_lines, scan_start, scan_end)
  /\ bpc' = "returned"
  /\ UNCHANGED <<scan_lines, scan_start, scan_i, scan_count, scan_end, scan_visits>>
  /\ UNCHANGED <<rvars, fvars, pvars, cvars, dvars, evars>>

\* ------------------------------------------------------------------------
\* Structural records (ast_parser.py: the dict every extractor returns).
\* The ast_tree field, a second rendering of the same members, is not kept.
\* ------------------------------------------------------------------------
ANone == [found |-> FALSE, file_path |-> <<>>, language |-> "",
          imports |-> <<>>, functions |-> <<>>, classes |-> <<>>,
          variables |-> <<>>, full_source_code |-> <<>>]
ARecord(file_path, lang, imports, functions, classes, variables, content) ==
  [found |-> TRUE, file_path |-> file_path, language |-> lang,
   imports |-> imports, functions |-> functions, classes |-> classes,
   variables |-> variables, full_source_code |-> content]

\* what the body of an extractor's try block does: returns ret, or raises exc
Returns(rec) == [exc |-> "none", ret |-> rec]
Raises(e)    == [exc |-> e, ret |-> ANone]

\* "except Exception as e: ... return None" at the end of every extractor
\* (lines 538-540, 674-676, 2593-2595): caught keeps what was swallowed
ExtractorHandler(outcome) ==
  IF outcome.exc # "none"
  THEN [exc |-> "none", ret |-> ANone, caught |-> outcome.exc]
  ELSE [exc |-> "none", ret |-> outcome.ret, caught |-> "none"]

\* ------------------------------------------------------------------------
\* ASTParser._parse_python_file (ast_parser.py:460-540)
\* ------------------------------------------------------------------------
PyIndented(line) == line \in {"    return 1", "    import sys", "    pass", " b "}
PyOpener(line)   == line \in {"def f():", "class C:"}
PySimple(line)   == line \in {"import os", "from a import b", "x = 1", "a"}

NoBlock == [open |-> FALSE, kind |-> "", line |-> 0, last |-> 0]

\* ast.parse on the lines: the module's top-level statements in source order,
\* each block statement with the lines of its body, or a SyntaxError
RECURSIVE PyStatements(_, _, _, _)
PyStatements(lines, i, blk, acc) ==
  LET Close == IF blk.open THEN Append(acc, blk) ELSE acc IN
  IF i > Len(lines)
  THEN IF blk.open /\ blk.last = blk.line THEN [ok |-> FALSE, stmts |-> <<>>]
       ELSE [ok |-> TRUE, stmts |-> Close]
  ELSE
    LET line == lines[i] IN
    IF Strip(line) = "" THEN PyStatements(lines, i + 1, blk, acc)
    ELSE IF line = "def f(:" THEN [ok |-> FALSE, stmts |-> <<>>]
    ELSE IF PyIndented(line)
      THEN IF blk.open
           THEN PyStatements(lines, i + 1, [blk EXCEPT !.last = i], acc)
           ELSE [ok |-> FALSE, stmts |-> <<>>]
    ELSE IF blk.open /\ blk.last = blk.line THEN [ok |-> FALSE, stmts |-> <<>>]
    ELSE IF PyOpener(line)
      THEN PyStatements(lines, i + 1,
             [open |-> TRUE, kind |-> line, line |-> i, last |-> i], Close)
    ELSE PyStatements(lines, i + 1, NoBlock,
             Append(Close, [open |-> FALSE, kind |-> line, line |-> i, last |-> i]))

\* alias names of one import statement
PyImportNames(line) ==
  CASE line = "import os"       -> <<"os">>
    [] line = "from a import b" -> <<"a.b">>
    [] line = "    import sys"  -> <<"sys">>
    [] OTHER                    -> <<>>

RECURSIVE FlatMap(_, _)
FlatMap(seqs, i) == IF i > Len(seqs) THEN <<>> ELSE seqs[i] \o FlatMap(seqs, i + 1)

\* imports found by ast.walk, a breadth-first walk: the module's own import
\* statements first, then those inside the bodies of its blocks
PyImports(lines, stmts) ==
  LET top    == [k \in 1..Len(stmts) |-> PyImportNames(stmts[k].kind)]
      Body(st) == [k \in 1..(st.last - st.line) |-> PyImportNames(lines[st.line + k])]
      nested == [k \in 1..Len(stmts) |->
                   IF stmts[k].open THEN FlatMap(Body(stmts[k]), 1) ELSE <<>>]
  IN FlatMap(top, 1) \o FlatMap(nested, 1)

\* the members of one kind: lines 477-525
PyMembers(lines, stmts, kind) ==
  LET Entry(st) ==
        IF st.kind # kind THEN <<>>
        ELSE IF kind = "x = 1"
        THEN << [name |-> "x", line |-> st.line, value |-> "1",
                 full_assignment |-> SubSeq(lines, st.line, st.last)] >>
        ELSE << [name |-> IF kind = "def f():" THEN "f" ELSE "C",
                 line |-> st.line,
                 body |-> SubSeq(lines, st.line, st.last),
                 full_code |-> SubSeq(lines, st.line, st.last)] >>
  IN FlatMap([k \in 1..Len(stmts) |-> Entry(stmts[k])], 1)

ParsePythonBody(file_path, content) ==
  LET tree == PyStatements(content, 1, NoBlock, <<>>) IN
  IF ~tree.ok THEN Raises("SyntaxError")
  ELSE Returns(ARecord(file_path, "python",
                       PyImports(content, tree.stmts),
                       PyMembers(content, tree.stmts, "def f():"),
                       PyMembers(content, tree.stmts, "class C:"),
                       PyMembers(content, tree.stmts, "x = 1"),
                       content))

ParsePythonFile(file_path, content) ==
  ExtractorHandler(ParsePythonBody(file_path, content))

\* ------------------------------------------------------------------------
\* ASTParser._parse_java_file (ast_parser.py:542-676)
\* ------------------------------------------------------------------------
\* which branch of the if/elif chain (lines 568-648) a stripped line takes
JavaKind(line) ==
  CASE line \in {"", "// c"}                     -> "skip"
    [] line = "import a.B;"                      -> "import"
    [] line = "package p;"                       -> "package"
    [] line = "public class A {"                 -> "class"
    [] line \in {"public void f() {", "public void g();",
                 "public int h() { return 1; }"} -> "method"
    [] line \in {"private int x;", "private int y ="} -> "variable"
    [] OTHER                                     -> "other"

\* re.search(r'(\w+)\s*\([^)]*\)', line).group(1)
MethodName(line) ==
  CASE line = "public void f() {" -> "f"
    [] line = "public void g();"  -> "g"
    [] OTHER                      -> "h"

\* _extract_modifiers (lines 1126-1141) on the lines of the vocabulary
ExtractModifiers(line) ==
  IF line \in {"private int x;", "private int y ="} THEN <<"private">>
  ELSE <<"public">>

ParseJavaBody(file_path, content) ==
  LET lines == content
      Kind(i) == JavaKind(Strip(lines[i]))
      Import(i) == IF Kind(i) = "import" THEN << "a.B" >> ELSE <<>>
      Class(i) ==
        IF Kind(i) = "class"
        THEN << [name |-> "A", line |-> i, type |-> "public",
                 modifiers |-> ExtractModifiers(Strip(lines[i])),
                 full_code |-> ExtractCodeBlock(lines, i)] >>
        ELSE <<>>
      Method(i) ==
        IF Kind(i) = "method"
        THEN << [name |-> MethodName(Strip(lines[i])), line |-> i,
                 visibility |-> "public",
                 modifiers |-> ExtractModifiers(Strip(lines[i])),
                 full_code |-> ExtractCodeBlock(lines, i)] >>
        ELSE <<>>
      \* re.search(r'(\w+)\s+(\w+)', line): the first two words of the line
      Variable(i) ==
        IF Kind(i) = "variable"
        THEN << [name |-> "int", type |-> "private", line |-> i,
                 modifiers |-> ExtractModifiers(Strip(lines[i])),
                 full_code |-> ExtractVariableDeclaration(lines, i)] >>
        ELSE <<>>
  IN Returns(ARecord(file_path, "java",
                     FlatMap([i \in 1..Len(lines) |-> Import(i)], 1),
                     FlatMap([i \in 1..Len(lines) |-> Method(i)], 1),
                     FlatMap([i \in 1..Len(lines) |-> Class(i)], 1),
                     FlatMap([i \in 1..Len(lines) |-> Variable(i)], 1),
                     content))

ParseJavaFile(file_path, content) ==
  ExtractorHandler(ParseJavaBody(file_path, content))

\* ------------------------------------------------------------------------
\* ASTParser._parse_generic_file (ast_parser.py:2550-2595)
\* ------------------------------------------------------------------------
\* enumerate(lines) for enumerate(lines, 1): line numbers start at 0
Statements_ZeroBased(lines) ==
  LET Entry(i) ==
        IF Strip(lines[i]) # ""
        THEN << [name |-> <<"line_", i - 1>>, line |-> i - 1, type |-> "statement",
                 full_code |-> Strip(lines[i])] >>
        ELSE <<>>
  IN FlatMap([i \in 1..Len(lines) |-> Entry(i)], 1)

\* lines 2565-2575
Statements(lines) ==
  LET Entry(i) ==
        IF Strip(lines[i]) # ""
        THEN << [name |-> <<"line_", i>>, line |-> i, type |-> "statement",
                 full_code |-> Strip(lines[i])] >>
        ELSE <<>>
  IN FlatMap([i \in 1..Len(lines) |-> Entry(i)], 1)

ParseGenericBody_Stripped(file_path, content, lang) ==
  Returns(ARecord(file_path, lang, <<>>, Statements(content), <<>>, <<>>,
                  [i \in 1..Len(content) |-> Strip(content[i])]))
ParseGenericBody(file_path, content, lang) ==
  Returns(ARecord(file_path, lang, <<>>, Statements(content), <<>>, <<>>,
                  content))

ParseGenericFile(file_path, content, lang) ==
  ExtractorHandler(ParseGenericBody(file_path, content, lang))

\* ------------------------------------------------------------------------
\* ASTParser._detect_language_from_file (ast_parser.py:372-458)
\* A path is a sequence of symbols whose last one is the file name's
\* extension (with its dot) or, for a name without a dot, the whole name.
\* ------------------------------------------------------------------------
EndsWith(path, suffixes) == Len(path) > 0 /\ path[Len(path)] \in suffixes
IsOneOf(path, names)     == path \in names

\* the branches of lines 377-456 in their order: suffix is TRUE for an
\* endswith test on the path and FALSE for a comparison of the whole path
\* with a list of names
DetectRules ==
  <<
     [suffix |-> TRUE,  of |-> {".py", ".pyw", ".pyi", ".pyx", ".pxd", ".pxi"},
      lang |-> "python"],
     [suffix |-> TRUE,  of |-> {".java", ".jav"}, lang |-> "java"],
     [suffix |-> TRUE,  of |-> {".js", ".jsx", ".mjs", ".cjs"}, lang |-> "javascript"],
     [suffix |-> TRUE,  of |-> {".ts", ".tsx", ".mts", ".cts"}, lang |-> "typescript"],
     [suffix |-> TRUE,  of |-> {".cbl", ".cob", ".cpy", ".cobol"}, lang |-> "cobol"],
     [suffix |-> TRUE,  of |-> {".cpp", ".cc", ".cxx", ".c++", ".h", ".hpp", ".hxx",
                                ".hh", ".h++"}, lang |-> "cpp"],
     [suffix |-> TRUE,  of |-> {".c", ".h"}, lang |-> "c"],
     [suffix |-> TRUE,  of |-> {".go"}, lang |-> "go"],
     [suffix |-> TRUE,  of |-> {".rs"}, lang |-> "rust"],
     [suffix |-> TRUE,  of |-> {".php", ".php3", ".php4", ".php5", ".phtml"},
      lang |-> "php"],
     [suffix |-> TRUE,  of |-> {".rb", ".rbw"}, lang |-> "ruby"],
     [suffix |-> TRUE,  of |-> {".sql"}, lang |-> "sql"],
     [suffix |-> TRUE,  of |-> {".html", ".htm", ".xhtml"}, lang |-> "html"],
     [suffix |-> TRUE,  of |-> {".css", ".scss", ".sass", ".less"}, lang |-> "css"],
     [suffix |-> TRUE,  of |-> {".xml", ".xsd", ".xsl"}, lang |-> "xml"],
     [suffix |-> TRUE,  of |-> {".json"}, lang |-> "json"],
     [suffix |-> TRUE,  of |-> {".yml", ".yaml"}, lang |-> "yaml"],
     [suffix |-> TRUE,  of |-> {".toml"}, lang |-> "toml"],
     [suffix |-> TRUE,  of |-> {".ini", ".cfg", ".conf"}, lang |-> "ini"],
     [suffix |-> TRUE,  of |-> {".md", ".markdown"}, lang |-> "markdown"],
     [suffix |-> FALSE, of |-> {<<"dockerfile">>, <<".dockerfile">>},
      lang |-> "dockerfile"],
     [suffix |-> FALSE, of |-> {<<"makefile">>, <<".mk">>, <<".make">>},
      lang |-> "makefile"],
     [suffix |-> FALSE, of |-> {<<"cmakelists", ".txt">>, <<".cmake">>}, lang |-> "cmake"],
     [suffix |-> FALSE, of |-> {<<"package", ".json">>, <<"package-lock", ".json">>,
                                <<"yarn", ".lock">>, <<"pnpm-lock", ".yaml">>},
      lang |-> "npm"],
     [suffix |-> FALSE, of |-> {<<"requirements", ".txt">>, <<"setup", ".py">>,
                                <<"pyproject", ".toml">>, <<"pipfile">>,
                                <<"poetry", ".lock">>}, lang |-> "pip"],
     [suffix |-> FALSE, of |-> {<<"cargo", ".toml">>, <<"cargo", ".lock">>},
      lang |-> "cargo"],
     [suffix |-> FALSE, of |-> {<<"go", ".mod">>, <<"go", ".sum">>}, lang |-> "go_mod"],
     [suffix |-> FALSE, of |-> {<<"composer", ".json">>, <<"composer", ".lock">>},
      lang |-> "composer"],
     [suffix |-> FALSE, of |-> {<<"gemfile">>, <<"gemfile", ".lock">>}, lang |-> "gemfile"],
     [suffix |-> FALSE, of |-> {<<"pubspec", ".yaml">>, <<"pubspec", ".lock">>},
      lang |-> "pubspec"],
     [suffix |-> TRUE,  of |-> {".cabal"}, lang |-> "cabal"],
     [suffix |-> FALSE, of |-> {<<"stack", ".yaml">>}, lang |-> "stack"],
     [suffix |-> FALSE, of |-> {<<"mix", ".exs">>, <<"mix", ".lock">>}, lang |-> "mix"],
     [suffix |-> FALSE, of |-> {<<"rebar", ".config">>}, lang |-> "rebar"],
     [suffix |-> FALSE, of |-> {<<"project", ".clj">>}, lang |-> "leiningen"],
     [suffix |-> FALSE, of |-> {<<"build", ".sbt">>,
                                <<"project", "/", "build", ".properties">>},
      lang |-> "sbt"],
     [suffix |-> FALSE, of |-> {<<"gradlew">>, <<"gradlew", ".bat">>},
      lang |-> "gradle_wrapper"],
     [suffix |-> FALSE, of |-> {<<"mvnw">>, <<"mvnw", ".cmd">>}, lang |-> "maven_wrapper"],
     [suffix |-> FALSE, of |-> {<<"pom", ".xml">>, <<"build", ".gradle">>,
                                <<"gradle", ".properties">>, <<"settings", ".gradle">>},
      lang |-> "gradle"],
     [suffix |-> FALSE, of |-> {<<"maven">>}, lang |-> "maven"]
  >>

RuleMatches(rule, path) ==
  IF rule.suffix THEN EndsWith(path, rule.of) ELSE IsOneOf(path, rule.of)

\* the if/elif chain: the first branch from r on whose test holds decides
RECURSIVE FirstMatch(_, _, _)
FirstMatch(path, default_language, r) ==
  IF r > Len(DetectRules) THEN default_language
  ELSE IF RuleMatches(DetectRules[r], path) THEN DetectRules[r].lang
  ELSE FirstMatch(path, default_language, r + 1)

DetectLanguageFromFile(file_path, default_language) ==
  FirstMatch(LowerSeq(file_path), default_language, 1)

\* the whole call
Detect ==
  /\ dpc = "call"
  /\ detected' = DetectLanguageFromFile(detect_path, detect_default)
  /\ dpc' = "returned"
  /\ UNCHANGED <<detect_path, detect_default>>
  /\ UNCHANGED <<rvars, fvars, pvars, cvars, bvars, evars>>

\* ------------------------------------------------------------------------
\* ASTParser.parse_file (ast_parser.py:304-370)
\* ------------------------------------------------------------------------
MAX_FILE_SIZE_MB   == 10
MAX_FILES_TO_PARSE == 5000
BATCH_SIZE         == 100

\* a file on disk: stat is the outcome of os.path.getsize, readable that of
\* open/read with encoding utf-8, content its text as the lines between '\n'
AFile(path, stat, size, readable, content) ==
  [path |-> path, stat |-> stat, size |-> size, readable |-> readable,
   content |-> content]
NoFile == AFile(<<>>, "ok", 0, "ok", <<>>)

\* line 310 with ">=" for ">"
TooLarge_AtLimit(file_size) == file_size >= MAX_FILE_SIZE_MB * 1024 * 1024

\* line 310
TooLarge(file_size) == file_size > MAX_FILE_SIZE_MB * 1024 * 1024

\* lines 318-366; the paths of this model select the Python extractor, the
\* Java extractor (one of the line-scanning extractors) or the generic one
Dispatch(file_path, content, default_language) ==
  LET actual_language == DetectLanguageFromFile(file_path, default_language) IN
  CASE actual_language = "python" -> ParsePythonFile(file_path, content)
    [] actual_language = "java"   -> ParseJavaFile(file_path, content)
    [] OTHER -> ParseGenericFile(file_path, content, actual_language)

\* lines 368-370
ParseFileHandler_NoCatch(outcome) == [exc |-> outcome.exc, ret |-> outcome.ret]
ParseFileHandler(outcome) ==
  IF outcome.exc # "none" THEN Returns(ANone)
  ELSE [exc |-> "none", ret |-> outcome.ret]

\* the whole call, as parse_project sees it
ParseFile(f, default_language) ==
  ParseFileHandler(
    IF f.stat # "ok" THEN Raises(f.stat)
    ELSE IF TooLarge(f.size) THEN Returns(ANone)
    ELSE IF f.readable # "ok" THEN Raises(f.readable)
    ELSE LET out == Dispatch(f.path, f.content, default_language)
         IN [exc |-> out.exc, ret |-> out.ret])

\* lines 308-312
GetSize ==
  /\ fpc = "getsize"
  /\ IF file.stat # "ok"
     THEN /\ fexc' = file.stat
          /\ fpc' = "except"
          /\ UNCHANGED file_ast
     ELSE IF TooLarge(file.size)
     THEN /\ file_ast' = ANone
          /\ fpc' = "done"
          /\ UNCHANGED fexc
     ELSE /\ fpc' = "read"
          /\ UNCHANGED <<file_ast, fexc>>
  /\ UNCHANGED <<file, language, content_read, extractor_error, fraised>>
  /\ UNCHANGED <<rvars, pvars, cvars, bvars, dvars, evars>>

\* lines 314-315
ReadFile ==
  /\ fpc = "read"
  /\ IF file.readable # "ok"
     THEN /\ fexc' = file.readable
          /\ fpc' = "except"
          /\ UNCHANGED content_read
     ELSE /\ content_read' = file.content
          /\ fpc' = "dispatch"
          /\ UNCHANGED fexc
  /\ UNCHANGED <<file, language, file_ast, extractor_error, fraised>>
  /\ UNCHANGED <<rvars, pvars, cvars, bvars, dvars, evars>>

\* lines 318-366
Extract ==
  /\ fpc = "dispatch"
  /\ LET out == Dispatch(file.path, content_read, language) IN
       /\ extractor_error' = out.caught
       /\ IF out.exc # "none"
          THEN /\ fexc' = out.exc
               /\ fpc' = "except"
               /\ UNCHANGED file_ast
          ELSE /\ file_ast' = out.ret
               /\ fpc' = "done"
               /\ UNCHANGED fexc
  /\ UNCHANGED <<file, language, content_read, fraised>>
  /\ UNCHANGED <<rvars, pvars, cvars, bvars, dvars, evars>>

\* lines 368-370
FileExcept ==
  /\ fpc = "except"
  /\ LET out == ParseFileHandler(Raises(fexc)) IN
       /\ file_ast' = out.ret
       /\ fraised' = out.exc
  /\ fpc' = "done"
  /\ UNCHANGED <<file, language, content_read, extractor_error, fexc>>
  /\ UNCHANGED <<rvars, pvars, cvars, bvars, dvars, evars>>

\* ------------------------------------------------------------------------
\* ASTParser.parse_project, discovery (ast_parser.py:122-176)
\* A pattern is the symbols of a file name: <<".py">> for the extension
\* '.py', <<"setup", ".py">> for the file name 'setup.py'.
\* ------------------------------------------------------------------------
\* self.supported_languages as __init__ builds it (lines 19-94), for the
\* languages of the model
InitialLanguages ==
  [lang \in {"python", "java", "kotlin"} |->
     CASE lang = "python" -> << <<".py">>, <<".pyw">>, <<".pyi">>, <<".pyx">>,
                                <<".pxd">>, <<".pxi">> >>
       [] lang = "java"   -> << <<".java">>, <<".jav">> >>
       [] OTHER           -> << <<".kt">>, <<".kts">> >>]

\* _get_dependency_files (lines 227-302)
GetDependencyFiles(lang) ==
  CASE lang = "python" -> << <<"requirements", ".txt">>, <<"setup", ".py">>,
                             <<"pyproject", ".toml">>, <<"Pipfile">>,
                             <<"poetry", ".lock">>, <<"Pipfile", ".lock">> >>
    [] lang = "java"   -> << <<"pom", ".xml">>, <<"build", ".gradle">>,
                             <<"gradle", ".properties">>,
                             <<"gradle-wrapper", ".properties">>,
                             <<"settings", ".gradle">> >>
    [] lang = "kotlin" -> << <<"build.gradle", ".kts">>, <<"gradle", ".properties">>,
                             <<"settings.gradle", ".kts">> >>
    [] OTHER           -> <<>>

\* ext.startswith('.') (line 157)
StartsWithDot(pattern) ==
  pattern[1] \in {".py", ".pyw", ".pyi", ".pyx", ".pxd", ".pxi", ".java", ".jav",
                  ".kt", ".kts"}

\* project_path.rglob(f"*{ext}") and project_path.rglob(ext) (lines 159, 164):
\* does the entry at path match
RglobMatches(path, pattern) ==
  IF StartsWithDot(pattern) THEN path[Len(path)] = pattern[1]
  ELSE Basename(path) = pattern

\* _should_skip_file (lines 206-225) with the skip_patterns of lines 140-152:
\* a name pattern is looked for anywhere in the path, an extension pattern at
\* its end
HoldsSkipName(sym) == sym \in {"layout", "build", "build.gradle", "node_modules"}
ShouldSkipFile(path) ==
  \/ \E k \in 1..Len(path) : HoldsSkipName(path[k])
  \/ path[Len(path)] \in {".log", ".tmp", ".bak", ".map", ".png", ".zip", ".pdf"}

\* lines 155-166: the entries appended to all_files, pattern by pattern
FoundFiles(entries, extensions) ==
  LET Hits(pattern) ==
        FlatMap([k \in 1..Len(entries) |->
                   IF /\ RglobMatches(entries[k].entry.path, pattern)
                      /\ entries[k].is_file
                      /\ ~ShouldSkipFile(entries[k].entry.path)
                   THEN << entries[k].entry >> ELSE <<>>], 1)
  IN FlatMap([p \in 1..Len(extensions) |-> Hits(extensions[p])], 1)

\* the paths of the model, in the order sorted() gives them (line 169)
SortedPaths ==
  << <<"proj", "/", "App", ".java">>,    <<"proj", "/", "a", ".py">>,
     <<"proj", "/", "b", ".java">>,      <<"proj", "/", "b", ".kt">>,
     <<"proj", "/", "b", ".py">>,        <<"proj", "/", "build.gradle", ".kts">>,
     <<"proj", "/", "c", ".jav">>,       <<"proj", "/", "c", ".kts">>,
     <<"proj", "/", "c", ".pyi">>,       <<"proj", "/", "gradle", ".properties">>,
     <<"proj", "/", "layout", ".py">>,   <<"proj", "/", "main", ".kt">>,
     <<"proj", "/", "pkg", ".py">>,
     <<"proj", "/", "requirements", ".txt">>,
     <<"proj", "/", "setup", ".py">>,    <<"proj", "/", "util", ".py">> >>

\* line 169: sorted(list(set(all_files)))
SortedSet_KeepsDuplicates(found) ==
  FlatMap([r \in 1..Len(SortedPaths) |->
             SelectSeq(found, LAMBDA f : f.path = SortedPaths[r])], 1)
SortedSet(found) ==
  FlatMap([r \in 1..Len(SortedPaths) |->
             IF \E k \in 1..Len(found) : found[k].path = SortedPaths[r]
             THEN << found[CHOOSE k \in 1..Len(found) : found[k].path = SortedPaths[r]] >>
             ELSE <<>>], 1)

\* lines 172-174
LimitFiles(files, max_files) ==
  IF Len(files) > max_files THEN SubSeq(files, 1, max_files) ELSE files

\* lines 129 and 136-137: extensions is the catalog's own list when the
\* language is in the catalog, so extend() lengthens the catalog entry
ExtendedLanguages(catalog, lang) ==
  IF lang \in DOMAIN catalog
  THEN [catalog EXCEPT ![lang] = @ \o GetDependencyFiles(lang)]
  ELSE catalog

Extensions(catalog, lang) ==
  IF lang \in DOMAIN catalog
  THEN catalog[lang] \o GetDependencyFiles(lang)
  ELSE GetDependencyFiles(lang)

\* lines 122-176; the directory is walked once per pattern, and an exception
\* of a walk goes to the handler of lines 202-204, which re-raises it
Discover ==
  /\ ppc = "discover"
  /\ supported_languages' = ExtendedLanguages(supported_languages, source_language)
  /\ IF walk_error # "none" /\ Extensions(supported_languages, source_language) # <<>>
     THEN /\ praised' = walk_error
          /\ ppc' = "raised"
          /\ UNCHANGED all_files
     ELSE /\ all_files' =
               LimitFiles(SortedSet(FoundFiles(project_tree,
                            Extensions(supported_languages, source_language))),
                          limits.MAX_FILES_TO_PARSE)
          /\ ppc' = "loop"
          /\ UNCHANGED praised
  /\ UNCHANGED <<source_language, batch_i, batch_j, ast_data, limits, project_tree,
                 walk_error, calls, handed>>
  /\ UNCHANGED <<rvars, fvars, cvars, bvars, dvars, evars>>

\* ------------------------------------------------------------------------
\* ASTParser.parse_project, the parse loop (ast_parser.py:178-204)
\* ------------------------------------------------------------------------
\* line 181 as all_files[i:i + batch_size - 1]: the last file of a full
\* batch is left out
Batch_OneShort == SubSeq(all_files, batch_i + 1,
                         Min({batch_i + Max({limits.BATCH_SIZE - 1, 1}),
                              Len(all_files)}))

\* line 181: batch = all_files[i:i + batch_size]
Batch == SubSeq(all_files, batch_i + 1,
                Min({batch_i + limits.BATCH_SIZE, Len(all_files)}))

\* "if file_ast:" (line 190): None is falsy, a record (a non-empty dict) truthy
FileAstTruthy(rec) == rec.found

\* lines 184-194, one iteration; an exception leaving parse_file is re-raised
\* by the handler of lines 202-204
ParseNextFile ==
  /\ ppc = "loop"
  /\ batch_i < Len(all_files)
  /\ batch_j <= Len(Batch)
  /\ LET out == ParseFile(Batch[batch_j], source_language) IN
       IF out.exc # "none"
       THEN /\ praised' = out.exc
            /\ ppc' = "raised"
            /\ UNCHANGED <<ast_data, batch_j>>
       ELSE /\ ast_data' = IF FileAstTruthy(out.ret)
                           THEN Append(ast_data, out.ret) ELSE ast_data
            /\ batch_j' = batch_j + 1
            /\ UNCHANGED <<ppc, praised>>
  /\ handed' = Append(handed, Batch[batch_j].path)
  /\ UNCHANGED <<all_files, source_language, batch_i, supported_languages,
                 limits, project_tree, walk_error, calls>>
  /\ UNCHANGED <<rvars, fvars, cvars, bvars, dvars, evars>>

\* lines 180 and 197: the batch is exhausted, gc.collect(), next batch
NextBatch ==
  /\ ppc = "loop"
  /\ batch_i < Len(all_files)
  /\ batch_j > Len(Batch)
  /\ batch_i' = batch_i + limits.BATCH_SIZE
  /\ batch_j' = 1
  /\ UNCHANGED <<all_files, source_language, ast_data, ppc, praised,
                 supported_languages, limits, project_tree, walk_error, calls, handed>>
  /\ UNCHANGED <<rvars, fvars, cvars, bvars, dvars, evars>>

\* lines 199-200
ReturnAstData ==
  /\ ppc = "loop"
  /\ batch_i >= Len(all_files)
  /\ ppc' = "returned"
  /\ UNCHANGED <<all_files, source_language, batch_i, batch_j, ast_data, praised,
                 supported_languages, limits, project_tree, walk_error, calls, handed>>
  /\ UNCHANGED <<rvars, fvars, cvars, bvars, dvars, evars>>

\* ------------------------------------------------------------------------
\* CodeConverter.convert_code  (code_converter.py:34-124)
\* The prompt built at lines 57-67 only reaches the language model, whose
\* reply is any text; paths are written symbol by symbol, as the Recovery
\* Parser reads them.
\* ------------------------------------------------------------------------
\* self.supported_conversions (lines 11-23)
SupportedConversions ==
  [src \in {"python", "java", "javascript", "typescript", "cobol", "cpp", "c",
            "php", "ruby", "go", "rust"} |->
     CASE src \in {"python", "java", "javascript", "typescript", "cpp", "c",
                   "go", "rust"} ->
            {src, "python", "java", "javascript", "typescript", "go", "rust"}
       [] OTHER -> {src, "python", "java", "javascript", "typescript"}]

\* lines 195-201
IsConversionSupported(source_lang, target_lang) ==
  /\ Lower(source_lang) \in DOMAIN SupportedConversions
  /\ Lower(target_lang) \in SupportedConversions[Lower(source_lang)]

\* strategy 2 (lines 795-802): the repaired candidate parsed, or None
RepairedJson(r2) == IF r2.ok THEN r2.v ELSE JNone

\* strategy 1 and its JSONDecodeError handler (lines 788-802)
LoadedJson(r1, json_str_) ==
  IF r1.ok THEN r1.v
  ELSE RepairedJson(JsonLoads(FixCommonJsonIssues(json_str_)))

\* lines 780-802: json_data after the two parsing strategies
ParsedJson(cand) ==
  IF ~cand.found THEN JNone ELSE LoadedJson(JsonLoads(cand.str), cand.str)

\* strategy 3 (lines 804-807), run only when json_data is still None
JsonData(parsed, text, lang, path) ==
  IF NeedsManual(parsed) THEN ExtractContentManually(text, lang, path)
  ELSE parsed

\* _parse_single_file_conversion as one call (lines 764-849): the value that
\* the steps DirectParse, RepairParse, ManualExtract and Return arrive at
ParseSingleFileConversion(text, lang, path, fw) ==
  OuterHandler(PostProcess(JsonData(ParsedJson(JsonCandidate(text)),
                                    text, lang, path),
                           lang, path, fw)).ret

\* the names that count as a startup file of the language (lines 953-958);
\* the comparison with target_language is case-sensitive
StartupNames(target_lang) ==
  CASE target_lang = "python" ->
         { <<"main", ".", "py">>, <<"manage", ".", "py">>, <<"start", ".", "py">> }
    [] target_lang = "java"       -> { <<"main", ".", "java">> }
    [] target_lang = "javascript" -> { <<"index", ".", "js">> }
    [] target_lang = "typescript" -> { <<"index", ".", "ts">> }
    [] target_lang = "go"         -> { <<"main", ".", "go">> }
    [] target_lang = "rust"       -> { <<"main", ".", "rs">> }
    [] OTHER                      -> {}

\* _get_startup_file_info (lines 1008-1024): the file name, <<>> for None
StartupFileName(target_lang) ==
  CASE Lower(target_lang) = "java"       -> <<"Main", ".", "java">>
    [] Lower(target_lang) = "python"     -> <<"main", ".", "py">>
    [] Lower(target_lang) = "javascript" -> <<"index", ".", "js">>
    [] Lower(target_lang) = "typescript" -> <<"index", ".", "ts">>
    [] Lower(target_lang) = "go"         -> <<"main", ".", "go">>
    [] Lower(target_lang) = "rust"       -> <<"main", ".", "rs">>
    [] OTHER                             -> <<>>

\* whether _create_startup_files reaches its request of line 977
StartupAsked(target_lang, files) ==
  /\ \A k \in 1..Len(files) :
        /\ files[k].filename.t = "str"
        /\ LowerSeq(files[k].filename.s) \notin StartupNames(target_lang)
  /\ StartupFileName(target_lang) # <<>>

\* _create_startup_files (lines 946-1006): the files to add, or the exception
\* of file_data["filename"].lower() at line 952, which no handler covers
CreateStartupFiles(target_lang, fw, files, reply) ==
  IF \E k \in 1..Len(files) : files[k].filename.t # "str"
  THEN [exc |-> "AttributeError", ret |-> <<>>]
  ELSE IF \E k \in 1..Len(files) :
            LowerSeq(files[k].filename.s) \in StartupNames(target_lang)
  THEN [exc |-> "none", ret |-> <<>>]
  ELSE IF StartupFileName(target_lang) = <<>>
  THEN [exc |-> "none", ret |-> <<>>]
  ELSE
    LET filename == StartupFileName(target_lang)
        parsed_startup_file ==
          ParseSingleFileConversion(reply, target_lang,
                                    <<"startup_">> \o filename, fw)
    IN IF ~parsed_startup_file.found THEN [exc |-> "none", ret |-> <<>>]
       ELSE IF target_lang = "java" /\ fw \in {"spring", "spring_boot"}
       THEN [exc |-> "none",
             ret |-> << [parsed_startup_file EXCEPT
                           !.filename = JStr(<<"src/main/java/", "Main", ".", "java">>)] >>]
       ELSE [exc |-> "none", ret |-> <<parsed_startup_file>>]

\* _get_default_dependencies (lines 387-427): the names it lists
DefaultDependencies(lang, fw) ==
  IF Lower(lang) = "java" /\ fw \in {"spring", "spring_boot"}
  THEN {"spring-boot-starter-web", "spring-boot-starter-data-jpa",
        "spring-boot-starter-security", "spring-boot-starter-thymeleaf",
        "spring-boot-devtools", "spring-boot-starter-test", "junit-jupiter",
        "slf4j-api", "logback-classic"}
  ELSE CASE Lower(lang) = "python"     -> {"requests", "pydantic"}
         [] Lower(lang) = "java"       -> {"junit", "slf4j"}
         [] Lower(lang) = "javascript" -> {"axios", "lodash"}
         [] Lower(lang) = "typescript" -> {"@types/node", "typescript"}
         [] Lower(lang) = "go"         -> {"github.com/gorilla/mux"}
         [] Lower(lang) = "rust"       -> {"serde", "tokio"}
         [] OTHER                      -> {}

\* _analyze_file_dependencies (lines 429-454) on texts in which an import
\* statement is one symbol
AnalyzeFileDependencies(content, lang) ==
  LET has(sym) == \E k \in 1..Len(content) : content[k] = sym IN
  CASE Lower(lang) = "python" ->
         (IF has("import requests") THEN {"requests"} ELSE {})
         \cup (IF has("import json") THEN {"json"} ELSE {})
         \cup (IF has("import asyncio") THEN {"asyncio"} ELSE {})
    [] Lower(lang) = "java" ->
         (IF has("import java.util") THEN {"java.util"} ELSE {})
         \cup (IF has("import org.junit") THEN {"junit"} ELSE {})
    [] OTHER -> {}

\* generate_dependencies (lines 126-141): the keys of the returned dict
GenerateDependencies(target_lang, files, fw) ==
  DefaultDependencies(target_lang, fw)
  \cup UNION {AnalyzeFileDependencies(files[k].content, target_lang) :
                k \in 1..Len(files)}

\* replies of the language model to a prompt
FileObject(fv, cv, dv) ==
  <<LB>> \o StrLit(KeyFilename) \o <<COLON>> \o fv
  \o <<COMMA>> \o StrLit(KeyContent) \o <<COLON>> \o StrLit(cv)
  \o <<COMMA>> \o StrLit(KeyDependencies) \o <<COLON>> \o dv \o <<RB>>

ChatReplies ==
  { FileObject(StrLit(<<"a", ".", "py">>), <<"x", EQ, "1">>, <<LB, RB>>),
    FileObject(StrLit(<<"Main", ".", "py">>), <<"import json">>,
               <<LB, DQ, "x", DQ, COLON, DQ, "1", DQ, RB>>),
    FileObject(<<"1">>, <<"x">>, <<"n", "ull">>),
    FileObject(StrLit(<<"c", ".", "py">>), <<"x">>, <<"n", "ull">>),
    FileObject(StrLit(<<"b", ".", "py">>), <<SP>>, <<LB, RB>>),
    <<"ok", COLON, NL>> \o Fence \o <<NL, "x", NL>> \o Fence \o <<NL>>,
    <<"x", SP, "x">> }

\* lines 44-48: an unsupported pair raises ValueError, which the handler of
\* lines 122-124 prints and raises again
CheckSupported ==
  /\ cpc = "check"
  /\ IF IsConversionSupported(source_language, target_language)
     THEN cpc' = "loop" /\ UNCHANGED craised
     ELSE cpc' = "raised" /\ craised' = "ValueError"
  /\ UNCHANGED <<file_index, converted_files, all_dependencies, replies,
                 conversion>>
  /\ UNCHANGED <<rvars, fvars, pvars, bvars, dvars, evars>>

\* one iteration of the loop of lines 51-92; the inner handler swallows what
\* all_dependencies.update raises, after the file has been appended
ConvertFile ==
  /\ cpc = "loop"
  /\ file_index <= Len(ast_data)
  /\ \E reply \in ChatReplies :
     \E parsed_conversion \in
          {ParseSingleFileConversion(reply, target_language,
                                     ast_data[file_index].file_path,
                                     target_framework)} :
          /\ converted_files' =
               IF parsed_conversion.found
               THEN Append(converted_files, parsed_conversion)
               ELSE converted_files
          /\ all_dependencies' =
               IF parsed_conversion.found /\ parsed_conversion.dependencies.t = "obj"
               THEN all_dependencies \o parsed_conversion.dependencies.kv
               ELSE all_dependencies
          /\ replies' = Append(replies, reply)
  /\ file_index' = file_index + 1
  /\ UNCHANGED <<cpc, conversion, craised>>
  /\ UNCHANGED <<rvars, fvars, pvars, bvars, dvars, evars>>

\* lines 94-124
ReturnConversion ==
  /\ cpc = "loop"
  /\ file_index > Len(ast_data)
  /\ \E reply \in ChatReplies :
     \E startup_files \in {CreateStartupFiles(target_language, target_framework,
                                                converted_files, reply)} :
     \E files \in {converted_files \o startup_files.ret} :
          /\ replies' = IF StartupAsked(target_language, converted_files)
                        THEN Append(replies, reply) ELSE replies
          /\ IF startup_files.exc # "none"
             THEN /\ craised' = startup_files.exc
                  /\ cpc' = "raised"
                  /\ UNCHANGED <<converted_files, conversion>>
             ELSE /\ converted_files' = files
                  /\ conversion' =
                       [source_language  |-> source_language,
                        target_language  |-> target_language,
                        target_framework |-> target_framework,
                        converted_files  |->
                          [k \in 1..Len(files) |->
                             [filename |-> files[k].filename,
                              content  |-> files[k].content]],
                        dependencies     |->
                          GenerateDependencies(target_language, files, target_framework),
                        converted        |-> Len(files)]
                  /\ cpc' = "returned"
                  /\ UNCHANGED craised
  /\ UNCHANGED <<file_index, all_dependencies>>
  /\ UNCHANGED <<rvars, fvars, pvars, bvars, dvars, evars>>

\* ------------------------------------------------------------------------
\* The /api/parse endpoint (main.py:241-301) and
\* ArangoDBClient.update_project_status (arangodb_client.py:163-174).
\* world says, for the one request served, whether get_project finds the
\* project, whether the project directory exists, whether parse_project of
\* the parser returns, and whether the database takes the first and the
\* second status update.
\* ------------------------------------------------------------------------
\* update_project_status: the stored status after the call, and whether the
\* call raised (the handler of lines 172-174 raises again)
UpdateProjectStatus(taken, old_status, status) ==
  IF taken THEN [exc |-> FALSE, status |-> status]
  ELSE [exc |-> TRUE, status |-> old_status]

\* lines 249-251: a project that is not found raises HTTPException(404)
GetProject ==
  /\ epc = "get_project"
  /\ epc' = IF world.project THEN "set_parsing" ELSE "except"
  /\ UNCHANGED <<world, stored_status, status_log, response>>
  /\ UNCHANGED <<rvars, fvars, pvars, cvars, bvars, dvars>>

\* lines 253-255
SetStatusParsing ==
  /\ epc = "set_parsing"
  /\ LET upd == UpdateProjectStatus(world.update_parsing, stored_status, "parsing") IN
       /\ stored_status' = upd.status
       /\ status_log' = IF upd.exc THEN status_log ELSE Append(status_log, "parsing")
       /\ epc' = IF upd.exc THEN "except" ELSE "project_dir"
  /\ UNCHANGED <<world, response>>
  /\ UNCHANGED <<rvars, fvars, pvars, cvars, bvars, dvars>>

\* lines 257-260: a missing directory raises HTTPException(404)
CheckProjectDir ==
  /\ epc = "project_dir"
  /\ epc' = IF world.directory THEN "initialize" ELSE "except"
  /\ UNCHANGED <<world, stored_status, status_log, response>>
  /\ UNCHANGED <<rvars, fvars, pvars, cvars, bvars, dvars>>

\* lines 262-264: ASTParser() and initialize(), which only fills the parsers
\* table (ast_parser.py:96-118) and raises nothing
InitializeParser ==
  /\ epc = "initialize"
  /\ epc' = "parse"
  /\ UNCHANGED <<world, stored_status, status_log, response>>
  /\ UNCHANGED <<rvars, fvars, pvars, cvars, bvars, dvars>>

\* lines 269-271: parser.parse_project returns the records or raises
CallParseProject ==
  /\ epc = "parse"
  /\ epc' = IF world.parse THEN "store" ELSE "parse_error"
  /\ UNCHANGED <<world, stored_status, status_log, response>>
  /\ UNCHANGED <<rvars, fvars, pvars, cvars, bvars, dvars>>

\* lines 273-279: store_ast_data, whose failure is printed and passed over
StoreAstData ==
  /\ epc = "store"
  /\ epc' = "set_parsed"
  /\ UNCHANGED <<world, stored_status, status_log, response>>
  /\ UNCHANGED <<rvars, fvars, pvars, cvars, bvars, dvars>>

\* lines 281-292: the update to 'parsed', whose failure is printed and passed
\* over, and the response
SetStatusParsed ==
  /\ epc = "set_parsed"
  /\ LET upd == UpdateProjectStatus(world.update_final, stored_status, "parsed") IN
       /\ stored_status' = upd.status
       /\ status_log' = IF upd.exc THEN status_log ELSE Append(status_log, "parsed")
  /\ response' = "parsed"
  /\ epc' = "done"
  /\ UNCHANGED world
  /\ UNCHANGED <<rvars, fvars, pvars, cvars, bvars, dvars>>

\* lines 294-297: the update to 'parse_failed', then HTTPException(500); the
\* update's own exception and the HTTPException both go to the outer handler
ParseErrorHandler ==
  /\ epc = "parse_error"
  /\ LET upd == UpdateProjectStatus(world.update_final, stored_status, "parse_failed") IN
       /\ stored_status' = upd.status
       /\ status_log' = IF upd.exc THEN status_log
                        ELSE Append(status_log, "parse_failed")
  /\ epc' = "except"
  /\ UNCHANGED <<world, response>>
  /\ UNCHANGED <<rvars, fvars, pvars, cvars, bvars, dvars>>

\* lines 299-301: every exception, the HTTPExceptions raised above included,
\* ends the request with HTTPException(500)
EndpointErrorHandler ==
  /\ epc = "except"
  /\ response' = "error 500"
  /\ epc' = "done"
  /\ UNCHANGED <<world, stored_status, status_log>>
  /\ UNCHANGED <<rvars, fvars, pvars, cvars, bvars, dvars>>

\* ------------------------------------------------------------------------
\* Files and projects handed to the AST parser
\* ------------------------------------------------------------------------
MaxLines == 3    \* most lines in an enumerated file
MaxFiles == 3    \* most files in an enumerated project

SourceLanguages == {"python", "java", "kotlin"}

FilePaths == {SortedPaths[k] : k \in 1..Len(SortedPaths)}

\* a file holds lines of the language its extractor is chosen for
LinesFor(actual_language) ==
  CASE actual_language = "python" -> PythonLines
    [] actual_language = "java"   -> JavaLines
    [] OTHER                      -> PlainLines

TextsUpTo(S, n) == UNION {[1..k -> S] : k \in 1..n}

LimitSize == MAX_FILE_SIZE_MB * 1024 * 1024
SmallSize == LimitSize \div 2

\* every text of up to MaxLines lines in a healthy file; the attributes that
\* stop parse_file before extraction vary over the one-line texts
FilesAt(path, default_language) ==
  LET lines == LinesFor(DetectLanguageFromFile(path, default_language)) IN
  {AFile(path, "ok", SmallSize, "ok", c) : c \in TextsUpTo(lines, MaxLines)}
  \cup {AFile(path, "ok", sz, "ok", c) :
          sz \in {LimitSize, LimitSize + 1}, c \in TextsUpTo(lines, 1)}
  \cup {AFile(path, st, SmallSize, rd, c) :
          st \in {"ok", "FileNotFoundError"},
          rd \in {"PermissionError", "UnicodeDecodeError"},
          c \in TextsUpTo(lines, 1)}
  \cup {AFile(path, "FileNotFoundError", SmallSize, "ok", c) :
          c \in TextsUpTo(lines, 1)}

\* what a project may hold at one path: a healthy file, and for some paths a
\* file that parse_file cannot turn into a record, or a directory
TreeText(path) ==
  LET ext == path[Len(path)] IN
  CASE ext \in {".py", ".pyi"}    -> <<"import os", "", "x = 1">>
    [] ext \in {".java", ".jav"}  -> <<"public class A {", "private int x;", "}">>
    [] OTHER                      -> <<"a", "  ">>

TreeEntry(f, is_file) == [entry |-> f, is_file |-> is_file]

TreeEntriesAt(path) ==
  LET stem    == path[Len(path) - 1]
      ext     == path[Len(path)]
      healthy == AFile(path, "ok", SmallSize, "ok", TreeText(path))
  IN
  IF stem = "pkg" THEN {TreeEntry(healthy, FALSE)}
  ELSE {TreeEntry(healthy, TRUE)} \cup
    (CASE stem \in {"a", "App", "main"} ->
            {TreeEntry(AFile(path, "ok", LimitSize + 1, "ok", TreeText(path)), TRUE)}
       [] stem = "b" /\ ext = ".py" ->
            {TreeEntry(AFile(path, "ok", SmallSize, "ok", <<"def f(:">>), TRUE)}
       [] stem = "b" /\ ext = ".java" ->
            {TreeEntry(AFile(path, "ok", SmallSize, "PermissionError", TreeText(path)), TRUE)}
       [] stem = "c" /\ ext = ".pyi" ->
            {TreeEntry(AFile(path, "ok", SmallSize, "UnicodeDecodeError", TreeText(path)), TRUE)}
       [] stem = "requirements" ->
            {TreeEntry(AFile(path, "FileNotFoundError", SmallSize, "ok", TreeText(path)), TRUE)}
       [] OTHER -> {})

\* project directories with at most n entries among the paths of rank r and
\* higher of paths, in path order
RECURSIVE TreesFrom(_, _, _)
TreesFrom(paths, r, n) ==
  IF n = 0 \/ r > Len(paths) THEN {<<>>}
  ELSE TreesFrom(paths, r + 1, n)
       \cup {<<e>> \o rest : e \in TreeEntriesAt(paths[r]),
                             rest \in TreesFrom(paths, r + 1, n - 1)}

\* the class attributes of lines 13-15, and instances configured with small
\* values of the two that bound the parse loop
DefaultLimits == [MAX_FILES_TO_PARSE |-> MAX_FILES_TO_PARSE, BATCH_SIZE |-> BATCH_SIZE]
SmallLimits ==
  { [MAX_FILES_TO_PARSE |-> MaxFiles - 1, BATCH_SIZE |-> BATCH_SIZE],
    [MAX_FILES_TO_PARSE |-> MAX_FILES_TO_PARSE, BATCH_SIZE |-> 1],
    [MAX_FILES_TO_PARSE |-> MAX_FILES_TO_PARSE, BATCH_SIZE |-> 2] }

\* a language outside the catalog
UnknownLanguage == "klingon"

\* ------------------------------------------------------------------------
\* Specifications
\* ------------------------------------------------------------------------
RecoveryIdle ==
  /\ ai_response = <<>>
  /\ target_language = ""
  /\ target_framework = NoFramework
  /\ original_file_path = <<>>
  /\ pc = "idle"
  /\ json_str = <<>>
  /\ json_data = JNone
  /\ chain = <<>>
  /\ result = RNone
  /\ raised = "none"

FileIdle ==
  /\ file = NoFile
  /\ language = ""
  /\ fpc = "idle"
  /\ content_read = <<>>
  /\ file_ast = ANone
  /\ extractor_error = "none"
  /\ fexc = "none"
  /\ fraised = "none"

ProjectIdle ==
  /\ all_files = <<>>
  /\ source_language = ""
  /\ batch_i = 0
  /\ batch_j = 1
  /\ ast_data = <<>>
  /\ ppc = "idle"
  /\ praised = "none"
  /\ supported_languages = InitialLanguages
  /\ limits = DefaultLimits
  /\ project_tree = <<>>
  /\ walk_error = "none"
  /\ calls = 0
  /\ handed = <<>>

ConvertIdle ==
  /\ cpc = "idle"
  /\ file_index = 1
  /\ converted_files = <<>>
  /\ all_dependencies = <<>>
  /\ replies = <<>>
  /\ conversion = <<>>
  /\ craised = "none"

BlockIdle ==
  /\ scan_lines = <<>>
  /\ scan_start = 1
  /\ scan_i = 0
  /\ scan_count = 0
  /\ scan_end = 0
  /\ scan_visits = 0
  /\ scan_span = <<>>
  /\ bpc = "idle"

DetectIdle ==
  /\ detect_path = <<>>
  /\ detect_default = ""
  /\ detected = ""
  /\ dpc = "idle"

EndpointIdle ==
  /\ world = <<>>
  /\ stored_status = ""
  /\ status_log = <<>>
  /\ epc = "idle"
  /\ response = "none"

\* one call of _parse_single_file_conversion
RInit ==
  /\ ai_response \in Responses
  /\ target_language \in TargetLanguages
  /\ target_framework \in TargetFrameworks
  /\ original_file_path \in OriginalPaths
  /\ pc = "strategy1"
  /\ json_str = <<>>
  /\ json_data = JNone
  /\ chain = <<>>
  /\ result = RNone
  /\ raised = "none"
  /\ FileIdle
  /\ ProjectIdle
  /\ ConvertIdle
  /\ BlockIdle
  /\ DetectIdle
  /\ EndpointIdle

RNext == DirectParse \/ RepairParse \/ ManualExtract \/ Return

RecoverySpec == RInit /\ [][RNext]_vars

\* one call of parse_file
FInit ==
  /\ language \in SourceLanguages
  /\ \E p \in FilePaths : file \in FilesAt(p, language)
  /\ fpc = "getsize"
  /\ content_read = <<>>
  /\ file_ast = ANone
  /\ extractor_error = "none"
  /\ fexc = "none"
  /\ fraised = "none"
  /\ RecoveryIdle
  /\ ProjectIdle
  /\ ConvertIdle
  /\ BlockIdle
  /\ DetectIdle
  /\ EndpointIdle

FNext == GetSize \/ ReadFile \/ Extract \/ FileExcept

FileSpec == FInit /\ [][FNext]_vars

\* a call of parse_project that is about to start
CallStart ==
  /\ all_files = <<>>
  /\ batch_i = 0
  /\ batch_j = 1
  /\ ast_data = <<>>
  /\ ppc = "discover"
  /\ praised = "none"
  /\ handed = <<>>

\* one call of parse_project on a fresh instance
PInit ==
  /\ source_language \in SourceLanguages \cup {UnknownLanguage}
  /\ project_tree \in TreesFrom(SortedPaths, 1, MaxFiles)
  /\ \/ limits = DefaultLimits /\ walk_error \in {"none", "OSError"}
     \/ limits \in SmallLimits /\ walk_error = "none"
  /\ supported_languages = InitialLanguages
  /\ calls = 1
  /\ CallStart
  /\ RecoveryIdle
  /\ FileIdle
  /\ ConvertIdle
  /\ BlockIdle
  /\ DetectIdle
  /\ EndpointIdle

PNext == Discover \/ ParseNextFile \/ NextBatch \/ ReturnAstData

ProjectSpec == PInit /\ [][PNext]_vars

\* one call of convert_code on the records of up to MaxRecords parsed files
MaxRecords == 2

ParsedRecords(lang) ==
  {ARecord(p, lang, <<>>, <<>>, <<>>, <<>>, <<"x = 1">>) : p \in OriginalPaths}

CInit ==
  /\ source_language \in SourceLanguages
  /\ target_language \in TargetLanguages
  /\ target_framework \in {NoFramework, "spring"}
  /\ ast_data \in SeqsUpTo(ParsedRecords(source_language), MaxRecords)
  /\ cpc = "check"
  /\ file_index = 1
  /\ converted_files = <<>>
  /\ all_dependencies = <<>>
  /\ replies = <<>>
  /\ conversion = <<>>
  /\ craised = "none"
  /\ ai_response = <<>> /\ original_file_path = <<>> /\ pc = "idle"
  /\ json_str = <<>> /\ json_data = JNone /\ chain = <<>>
  /\ result = RNone /\ raised = "none"
  /\ all_files = <<>> /\ batch_i = 0 /\ batch_j = 1 /\ ppc = "idle"
  /\ praised = "none" /\ supported_languages = InitialLanguages
  /\ limits = DefaultLimits /\ project_tree = <<>> /\ walk_error = "none"
  /\ calls = 0 /\ handed = <<>>
  /\ FileIdle
  /\ BlockIdle
  /\ DetectIdle
  /\ EndpointIdle

CNext == CheckSupported \/ ConvertFile \/ ReturnConversion

ConvertSpec == CInit /\ [][CNext]_vars

\* one call of _extract_code_block on a text of up to MaxScanLines lines
MaxScanLines == 5

ScanLines == {"public void f() {", "  x();", "}", "public int h() { return 1; }",
              "if (a) { if (b) {"}

BInit ==
  /\ scan_lines \in TextsUpTo(ScanLines, MaxScanLines)
  /\ scan_start \in 1..Len(scan_lines)
  /\ scan_i = scan_start - 1
  /\ scan_count = 0
  /\ scan_end = scan_start - 1
  /\ scan_visits = 0
  /\ scan_span = <<>>
  /\ bpc = "opening"
  /\ RecoveryIdle
  /\ FileIdle
  /\ ProjectIdle
  /\ ConvertIdle
  /\ DetectIdle
  /\ EndpointIdle

BNext == VisitOpening \/ NoOpening \/ VisitClosing \/ ReturnSpan

BlockSpec == BInit /\ [][BNext]_vars

\* a call that has started runs on until it returns
BlockLiveSpec == BlockSpec /\ WF_vars(BNext)

\* one call of _extract_variable_declaration on a text of up to MaxDeclLines
\* lines
MaxDeclLines == 7

DeclLines == {"private int y =", "1;", ""}

DeclInit ==
  /\ scan_lines \in TextsUpTo(DeclLines, MaxDeclLines)
  /\ scan_start \in 1..Len(scan_lines)
  /\ scan_i = 0
  /\ scan_count = 0
  /\ scan_end = 0
  /\ scan_visits = 0
  /\ scan_span = <<>>
  /\ bpc = "declaration"
  /\ RecoveryIdle
  /\ FileIdle
  /\ ProjectIdle
  /\ ConvertIdle
  /\ DetectIdle
  /\ EndpointIdle

DeclNext == ScanDeclaration

DeclSpec == DeclInit /\ [][DeclNext]_vars

\* one call of _extract_cobol_block on a text of up to MaxCobolLines lines
MaxCobolLines == 3

CobolLines == {"IDENTIFICATION DIVISION.", "PROCEDURE DIVISION.",
               "  DATA DIVISION.", "procedure division.",
               "WORKING-STORAGE SECTION.", "SECTION-A.", "DATA-A.", "",
               "01 A PIC 9."}

CobolInit ==
  /\ scan_lines \in TextsUpTo(CobolLines, MaxCobolLines)
  /\ scan_start \in 1..Len(scan_lines)
  /\ scan_i = 0
  /\ scan_count = 0
  /\ scan_end = 0
  /\ scan_visits = 0
  /\ scan_span = <<>>
  /\ bpc = "cobol"
  /\ RecoveryIdle
  /\ FileIdle
  /\ ProjectIdle
  /\ ConvertIdle
  /\ DetectIdle
  /\ EndpointIdle

CobolNext == ScanCobol

CobolSpec == CobolInit /\ [][CobolNext]_vars

\* one call of _detect_language_from_file; a path is a bare file name, as
\* discovery yields it for the project directory '.', or a name in a directory
DetectNames ==
  { <<"go", ".mod">>, <<"Dockerfile">>, <<"package", ".json">>, <<"pom", ".xml">>,
    <<"a", ".py">>, <<"a", ".PY">>, <<"App", ".java">>, <<"main", ".go">>,
    <<"b", ".kt">>, <<"x", ".h">>, <<"README">>, <<"notes", ".txt">>,
    <<"Makefile">>, <<"requirements", ".txt">>, <<"setup", ".py">>,
    <<"build", ".gradle">>, <<"yarn", ".lock">>, <<"pyproject", ".toml">> }

DetectPaths == DetectNames \cup {<<"proj", "/">> \o name : name \in DetectNames}

DInit ==
  /\ detect_path \in DetectPaths
  /\ detect_default \in SourceLanguages
  /\ detected = ""
  /\ dpc = "call"
  /\ RecoveryIdle
  /\ FileIdle
  /\ ProjectIdle
  /\ ConvertIdle
  /\ BlockIdle
  /\ EndpointIdle

DNext == Detect

DetectSpec == DInit /\ [][DNext]_vars

\* one request to /api/parse for a project that was uploaded, or parsed
\* before
Worlds ==
  [project : BOOLEAN, update_parsing : BOOLEAN, directory : BOOLEAN,
   parse : BOOLEAN, update_final : BOOLEAN]

EInit ==
  /\ world \in Worlds
  /\ stored_status \in {"uploaded", "parsed", "parse_failed"}
  /\ status_log = <<>>
  /\ epc = "get_project"
  /\ response = "none"
  /\ RecoveryIdle
  /\ FileIdle
  /\ ProjectIdle
  /\ ConvertIdle
  /\ BlockIdle
  /\ DetectIdle

ENext ==
  \/ GetProject
  \/ SetStatusParsing
  \/ CheckProjectDir
  \/ InitializeParser
  \/ CallParseProject
  \/ StoreAstData
  \/ SetStatusParsed
  \/ ParseErrorHandler
  \/ EndpointErrorHandler

EndpointSpec == EInit /\ [][ENext]_vars

\* ------------------------------------------------------------------------
\* Properties of the AST parser
\* ------------------------------------------------------------------------
FileDone == fpc = "done"

\* C1: whenever parse_file returns a record, whichever extractor built it,
\* the record's full_source_code is exactly the text that was read from the
\* file and handed to the extractor: nothing is trimmed, normalised or lost.
C1_FullSourceVerbatim ==
  (FileDone /\ file_ast.found) =>
     /\ content_read = file.content
     /\ file_ast.full_source_code = content_read

\* a record built by the generic extractor from a text with lines that
\* strip() would change
C1_Witness ==
  /\ FileDone
  /\ file_ast.found
  /\ file_ast.language = "kotlin"
  /\ \E i \in 1..Len(file.content) : Strip(file.content[i]) # file.content[i]
  /\ file_ast.full_source_code = file.content

\* C9: an extractor that fails internally on its input still yields a
\* record, with empty imports, functions, classes and variables and with
\* the input text as full_source_code; it does not yield "no record".
C9_FailureYieldsEmptyRecord ==
  (FileDone /\ extractor_error # "none") =>
     /\ fraised = "none"
     /\ file_ast.found
     /\ file_ast.imports = <<>>
     /\ file_ast.functions = <<>>
     /\ file_ast.classes = <<>>
     /\ file_ast.variables = <<>>
     /\ file_ast.full_source_code = content_read

\* a file that parse_file turns into a record
Healthy(f) == f.stat = "ok" /\ ~TooLarge(f.size) /\ f.readable = "ok"
ExtractionSucceeds(f, lang) ==
  LET out == Dispatch(f.path, f.content, lang)
  IN out.exc = "none" /\ out.caught = "none"

RECURSIVE RecordsOfGoodFiles(_, _, _)
RecordsOfGoodFiles(files, lang, k) ==
  IF k > Len(files) THEN <<>>
  ELSE (IF Healthy(files[k]) /\ ExtractionSucceeds(files[k], lang)
        THEN << Dispatch(files[k].path, files[k].content, lang).ret >>
        ELSE <<>>) \o RecordsOfGoodFiles(files, lang, k + 1)

\* C10: parse_project skips a file that is oversized, unreadable or whose
\* extraction raises: no exception of per-file processing reaches the
\* caller, and the returned list holds the record of every other file whose
\* extraction succeeds.
C10_BadFilesSkipped ==
  /\ praised # "none" => (handed = <<>> /\ praised = walk_error)
  /\ ppc = "raised" => handed = <<>>
  /\ ppc = "returned" =>
       ast_data = RecordsOfGoodFiles(all_files, source_language, 1)

\* an oversized file, then one whose extraction raises, then a good one
C10_Witness ==
  /\ ppc = "returned"
  /\ Len(all_files) = 3
  /\ all_files[1].stat = "ok" /\ TooLarge(all_files[1].size)
  /\ Healthy(all_files[2])
  /\ ~ExtractionSucceeds(all_files[2], source_language)
  /\ Healthy(all_files[3])
  /\ Len(ast_data) = 1
  /\ ast_data[1].file_path = all_files[3].path

\* C14: a file of exactly MAX_FILE_SIZE_MB * 1024 * 1024 bytes is read and
\* handed to an extractor, whose record is what parse_file returns; a file one
\* byte larger is never read, yields no record and raises nothing
C14_SizeBoundary ==
  /\ (file.stat = "ok" /\ file.readable = "ok" /\ file.size = LimitSize /\ FileDone) =>
        /\ content_read = file.content
        /\ file_ast = Dispatch(file.path, file.content, language).ret
        /\ fraised = "none"
  /\ (file.stat = "ok" /\ file.size = LimitSize + 1) =>
        /\ fpc \in {"getsize", "done"}
        /\ content_read = <<>>
        /\ file_ast = ANone
        /\ fraised = "none"

\* a file of exactly the limit has been turned into a record
C14_Witness ==
  /\ FileDone
  /\ file.size = LimitSize
  /\ file_ast.found
  /\ file_ast.full_source_code = file.content

\* the place of a path in the sorted order of paths
PathRank(path) == CHOOSE r \in 1..Len(SortedPaths) : SortedPaths[r] = path

\* the files below the project directory that one of the requested patterns
\* (the language's extensions and its dependency-file names) matches and
\* that are not skipped
MatchedPaths ==
  {project_tree[k].entry.path : k \in
     {k \in 1..Len(project_tree) :
        /\ project_tree[k].is_file
        /\ ~ShouldSkipFile(project_tree[k].entry.path)
        /\ \E pattern \in
              (IF source_language \in DOMAIN InitialLanguages
               THEN {InitialLanguages[source_language][n] :
                       n \in 1..Len(InitialLanguages[source_language])}
               ELSE {})
              \cup {GetDependencyFiles(source_language)[n] :
                      n \in 1..Len(GetDependencyFiles(source_language))} :
              RglobMatches(project_tree[k].entry.path, pattern)}}

MatchedByTwoPatterns(path) ==
  /\ source_language = "python"
  /\ RglobMatches(path, <<".py">>)
  /\ RglobMatches(path, <<"setup", ".py">>)

Discovered == ppc \in {"loop", "returned"}

\* C15: the files handed to extraction are in strictly increasing path order
\* (sorted, no path twice), are at most MAX_FILES_TO_PARSE, and are exactly
\* the matched files that have fewer than MAX_FILES_TO_PARSE matched files
\* before them in the sorted order
C15_SortedUniqueLimited ==
  Discovered =>
    /\ \A i, j \in 1..Len(all_files) :
          i < j => PathRank(all_files[i].path) < PathRank(all_files[j].path)
    /\ Len(all_files) <= limits.MAX_FILES_TO_PARSE
    /\ {all_files[k].path : k \in 1..Len(all_files)} =
         {p \in MatchedPaths :
            Cardinality({q \in MatchedPaths : PathRank(q) < PathRank(p)})
              < limits.MAX_FILES_TO_PARSE}

\* a file matched by an extension and by a dependency-file name is in the
\* list once, and a matched file beyond the limit has been cut off
C15_Witness ==
  /\ Discovered
  /\ \E k \in 1..Len(all_files) : MatchedByTwoPatterns(all_files[k].path)
  /\ Cardinality(MatchedPaths) > limits.MAX_FILES_TO_PARSE
  /\ Len(all_files) = limits.MAX_FILES_TO_PARSE

\* the language the stated precedence gives: the first list of exact names
\* that holds the file's name, else the first list of extensions that holds
\* its extension, else the caller's default
ClaimedLanguage(path, default_language) ==
  LET named == {n \in 1..Len(DetectRules) :
                  /\ ~DetectRules[n].suffix
                  /\ LowerSeq(Basename(path)) \in DetectRules[n].of}
      ended == {n \in 1..Len(DetectRules) :
                  /\ DetectRules[n].suffix
                  /\ EndsWith(LowerSeq(path), DetectRules[n].of)}
  IN IF named # {} THEN DetectRules[Min(named)].lang
     ELSE IF ended # {} THEN DetectRules[Min(ended)].lang
     ELSE default_language

\* C16: detection answers with the language of an exact file-name match when
\* there is one, else with that of an extension match, else with the caller's
\* default
C16_ExactNameFirst ==
  dpc = "returned" => detected = ClaimedLanguage(detect_path, detect_default)

\* the 1-based numbers of the lines that are not blank
NonBlankLines(text) == {i \in 1..Len(text) : Strip(text[i]) # ""}

\* the file is read and its language is one the model has no extractor for
GenericCase ==
  /\ file.stat = "ok" /\ ~TooLarge(file.size) /\ file.readable = "ok"
  /\ DetectLanguageFromFile(file.path, language) \notin {"python", "java"}

\* C17: a file whose detected language has no extractor of its own is no
\* error: parse_file returns the generic extractor's record, whose functions
\* are statement-typed, one for every line that is not blank and none for a
\* blank one, each with the 1-based number of its line, in increasing order
C17_GenericStatements ==
  (FileDone /\ GenericCase) =>
     /\ fraised = "none"
     /\ extractor_error = "none"
     /\ file_ast.found
     /\ file_ast.language = DetectLanguageFromFile(file.path, language)
     /\ Len(file_ast.functions) = Cardinality(NonBlankLines(file.content))
     /\ {file_ast.functions[k].line : k \in 1..Len(file_ast.functions)}
          = NonBlankLines(file.content)
     /\ \A k \in 1..Len(file_ast.functions) :
          /\ file_ast.functions[k].type = "statement"
          /\ \A j \in 1..(k - 1) :
                file_ast.functions[j].line < file_ast.functions[k].line

\* a record of two statements from a three-line text whose middle line is
\* blank
C17_Witness ==
  /\ FileDone
  /\ GenericCase
  /\ Len(file.content) = 3
  /\ NonBlankLines(file.content) = {1, 3}
  /\ Len(file_ast.functions) = 2
  /\ file_ast.functions[2].line = 3

\* C19: a call of parse_project leaves the configuration of the instance as
\* it found it: the language catalog stays as __init__ built it, extension
\* list by extension list, and the limits are never assigned
C19_ConfigurationUnchanged ==
  /\ [](supported_languages = InitialLanguages)
  /\ [][limits' = limits]_vars

\* the paths of the listed files, in list order
PathsOf(files) == [k \in 1..Len(files) |-> files[k].path]

\* C20: parse_project hands the discovered files to parse_file one after
\* another in discovery order, each exactly once, a file only after all files
\* before it have produced their record or been skipped; the returned list
\* holds the records in that order, whatever BATCH_SIZE is
C20_SequentialInOrder ==
  /\ Discovered =>
        /\ Len(handed) <= Len(all_files)
        /\ handed = SubSeq(PathsOf(all_files), 1, Len(handed))
        /\ ast_data = RecordsOfGoodFiles(SubSeq(all_files, 1, Len(handed)),
                                         source_language, 1)
  /\ ppc = "returned" => handed = PathsOf(all_files)

\* three files have been handed over in batches of two, and the second and
\* third have left their records
C20_Witness ==
  /\ ppc = "returned"
  /\ limits.BATCH_SIZE = 2
  /\ Len(handed) = 3
  /\ Len(ast_data) = 2
  /\ ast_data[1].file_path = handed[2]
  /\ ast_data[2].file_path = handed[3]

\* the import strings of a text read line by line from top to bottom
SourceOrderImports(text, lang) ==
  FlatMap([i \in 1..Len(text) |->
             IF lang = "python" THEN PyImportNames(text[i])
             ELSE IF JavaKind(Strip(text[i])) = "import" THEN <<"a.B">>
             ELSE <<>>], 1)

\* C21: in a record of the Python or the Java extractor the imports list is
\* the file's import strings in the order of their source lines, imports
\* nested inside a function or class included, with duplicates kept
C21_ImportsInSourceOrder ==
  (FileDone /\ file_ast.found /\ file_ast.language \in {"python", "java"}) =>
     file_ast.imports = SourceOrderImports(file.content, file_ast.language)

\* ------------------------------------------------------------------------
\* Properties of the brace-balance scan
\* ------------------------------------------------------------------------
\* opens minus closes over the lines first..last
RECURSIVE Running(_, _, _)
Running(text, first, last) ==
  IF last < first THEN 0
  ELSE Running(text, first, last - 1) + Opens(text[last]) - Closes(text[last])

\* the lines on which the running total, counted from the declaration line,
\* is zero or less after having been positive on an earlier line
ClosingLines(text, first) ==
  {j \in first..Len(text) :
     /\ Running(text, first, j) <= 0
     /\ \E i \in first..(j - 1) : Running(text, first, i) > 0}

BlockReturned == bpc = "returned"

\* C12: when the running total of opens minus closes, counted from the
\* declaration line, becomes positive and later returns to zero or below (as
\* it does in balanced input that opens a brace), the scan returns exactly the
\* lines from the declaration line through the first such line, inclusive
C12_BalancedSpan ==
  (BlockReturned /\ ClosingLines(scan_lines, scan_start) # {}) =>
     scan_span = SubSeq(scan_lines, scan_start,
                        Min(ClosingLines(scan_lines, scan_start)))

\* a three-line method declared on line 3 has come back as a three-line span
C12_Witness ==
  /\ BlockReturned
  /\ scan_start = 3
  /\ Len(scan_lines) >= 5
  /\ SubSeq(scan_lines, 3, 5) = <<"public void f() {", "  x();", "}">>
  /\ scan_span = <<"public void f() {", "  x();", "}">>

\* what the scan returns: a non-empty run of consecutive lines of the file
\* that begins with the declaration line
SpanWellFormed ==
  /\ scan_span # <<>>
  /\ Len(scan_span) <= Len(scan_lines) - scan_start + 1
  /\ scan_span = SubSeq(scan_lines, scan_start, scan_start + Len(scan_span) - 1)

\* C13: for every text and every start line inside it the scan returns, having
\* visited each line from the declaration line on at most once and the
\* declaration line at most once more, and what it returns is a non-empty run
\* of consecutive lines that begins with the declaration line and is no
\* longer than the file
C13_ScanTerminates ==
  /\ [](scan_visits <= Len(scan_lines) - scan_start + 2)
  /\ [](BlockReturned => SpanWellFormed)
  /\ <>BlockReturned

\* the scan has returned from a text whose brace is never closed, and from
\* one in which no brace ever opens
C13_Witness ==
  /\ BlockReturned
  /\ Len(scan_lines) >= 3
  /\ \/ scan_count > 0
     \/ \A j \in scan_start..Len(scan_lines) : Running(scan_lines, scan_start, j) <= 0

\* the declaration line opens a block and closes it again
OneLineBody ==
  /\ Opens(scan_lines[scan_start]) > 0
  /\ Opens(scan_lines[scan_start]) = Closes(scan_lines[scan_start])

\* C23: when the declaration line itself opens and closes its block, the span
\* returned is that single line, whatever lines follow it
C23_OneLineSpan ==
  (BlockReturned /\ OneLineBody) => scan_span = <<scan_lines[scan_start]>>

\* ------------------------------------------------------------------------
\* Properties of the statement scan
\* ------------------------------------------------------------------------
Declared == bpc = "declared"

\* the last line of the statement as the claim has it: the first line after
\* the declaration line that ends with ';', if it is among the window
\* following lines, else the last line of the window or of the file
StatementEnd(text, first, window) ==
  LET last == Min({first + window, Len(text)})
      T    == {j \in (first + 1)..last : EndsWithSemicolon(text[j])}
  IN IF T # {} THEN Min(T) ELSE last

\* C24: the statement scan returns the declaration line alone when it ends
\* with ';'; otherwise it appends the following lines in order and stops
\* after the first appended line that ends with ';', after 5 appended lines,
\* or at the end of the file, whichever comes first
C24_BoundedStatement ==
  Declared =>
    scan_span = IF EndsWithSemicolon(scan_lines[scan_start])
                THEN <<scan_lines[scan_start]>>
                ELSE SubSeq(scan_lines, scan_start,
                            StatementEnd(scan_lines, scan_start, 5))

\* ------------------------------------------------------------------------
\* Properties of the COBOL section scan
\* ------------------------------------------------------------------------
Sectioned == bpc = "sectioned"

\* the start line is one the extractor records as a division or a section
HeaderStart ==
  IsDivisionLine(Strip(scan_lines[scan_start]))
  \/ IsSectionLine(Strip(scan_lines[scan_start]))

\* the last line before the next boundary line after first, or the last line
\* of the text
LastBeforeBoundary(text, first) ==
  LET B == {j \in (first + 1)..Len(text) : CobolBoundary(Strip(text[j]))}
  IN IF B # {} THEN Min(B) - 1 ELSE Len(text)

\* C25: the span returned for a division or section header starts at the
\* header line and ends just before the next line that begins a division,
\* section, procedure or data part, or at the end of the file, and it holds
\* no later line that the extractor records as a division or section header
C25_SectionSpan ==
  (Sectioned /\ HeaderStart) =>
     /\ scan_span = SubSeq(scan_lines, scan_start,
                           LastBeforeBoundary(scan_lines, scan_start))
     /\ \A k \in 2..Len(scan_span) :
           /\ ~IsDivisionLine(Strip(scan_span[k]))
           /\ ~IsSectionLine(Strip(scan_span[k]))

\* ------------------------------------------------------------------------
\* Properties of a whole run
\* ------------------------------------------------------------------------
\* C11: whatever fails during the conversion of a project, convert_code
\* returns to its caller and raises no exception that ends the run
C11_NoProjectScopedFailure == cpc # "raised" /\ craised = "none"

\* what the Recovery Parser made of the reply to the k-th input record
Conv(k) ==
  ParseSingleFileConversion(replies[k], target_language,
                            ast_data[k].file_path, target_framework)

\* the conversion of the k-th record yields no content, or raises: merging
\* dependencies that are not a dict raises inside the loop's try block
ConversionFails(k) == ~Conv(k).found \/ Conv(k).dependencies.t # "obj"

\* the results of the records converted so far that did not fail, in the
\* order of the input records
ConvertedInOrder ==
  FlatMap([k \in 1..(file_index - 1) |->
             IF ConversionFails(k) THEN <<>> ELSE <<Conv(k)>>], 1)

\* C29: a file whose reply yields no recoverable content or whose conversion
\* raises is left out of converted_files and no error of it reaches the
\* caller; every other file is converted, and the converted source files
\* stand in converted_files in the order of the input records, before any
\* startup file
C29_FailedFilesOmitted ==
  /\ cpc = "loop" => converted_files = ConvertedInOrder
  /\ cpc = "returned" =>
       /\ Len(converted_files) >= Len(ConvertedInOrder)
       /\ SubSeq(converted_files, 1, Len(ConvertedInOrder)) = ConvertedInOrder
       /\ Len(converted_files) <= Len(ConvertedInOrder) + 1
  /\ (cpc = "raised" /\ craised # "ValueError") =>
       \E k \in 1..(file_index - 1) : ~ConversionFails(k)

\* ------------------------------------------------------------------------
\* Properties of the parse endpoint
\* ------------------------------------------------------------------------
RequestDone == epc = "done"

\* this request has set the project's status to 'parsing'
SetToParsing == \E k \in 1..Len(status_log) : status_log[k] = "parsing"

\* C30: once a request has set the status to 'parsing', it does not finish,
\* with a response or with an error, leaving the status at 'parsing': when it
\* is done the stored status is 'parsed' if parsing succeeded and
\* 'parse_failed' otherwise
C30_StatusFlow ==
  (RequestDone /\ SetToParsing) =>
     stored_status = IF response = "parsed" THEN "parsed" ELSE "parse_failed"

====
